---- MODULE Spec2Model ----
(***************************************************************************)
(* Code similarity analyzer (CodeSimilarityAnalyzer): line normalisation,  *)
(* line scoring, greedy one-to-one line matching and the aggregate         *)
(* similarity percentage.                                                  *)
(*                                                                         *)
(* Numbers are exact rationals <<n, d>> with d > 0 in lowest terms.        *)
(***************************************************************************)
EXTENDS Integers, Sequences, FiniteSets, TLC

\* ------------------------------------------------------------------------
\* Rational arithmetic
\* ------------------------------------------------------------------------
RECURSIVE GCD(_, _)
GCD(a, b) == IF b = 0 THEN a ELSE GCD(b, a % b)

Abs(x) == IF x < 0 THEN -x ELSE x

Rat(n, d) == LET g == GCD(Abs(n), d) IN <<n \div g, d \div g>>

Zero == Rat(0, 1)
One == Rat(1, 1)

RAdd(a, b) == Rat(a[1] * b[2] + b[1] * a[2], a[2] * b[2])
RSub(a, b) == Rat(a[1] * b[2] - b[1] * a[2], a[2] * b[2])
RMul(a, b) == Rat(a[1] * b[1], a[2] * b[2])
RDiv(a, b) == IF b[1] > 0 THEN Rat(a[1] * b[2], a[2] * b[1])
                          ELSE Rat(-(a[1] * b[2]), a[2] * (-b[1]))
RLt(a, b) == a[1] * b[2] < b[1] * a[2]
RLe(a, b) == a[1] * b[2] <= b[1] * a[2]
RGt(a, b) == RLt(b, a)
RGe(a, b) == RLe(b, a)
RMin(a, b) == IF RLe(a, b) THEN a ELSE b
RMax(a, b) == IF RLe(a, b) THEN b ELSE a
RAbs(a) == <<Abs(a[1]), a[2]>>
RFloor(a) == a[1] \div a[2]
\* Math.round(x): the integer nearest to x, halves rounded up
RRound(a) == RFloor(RAdd(a, Rat(1, 2)))
Int2Rat(n) == Rat(n, 1)

Min2(a, b) == IF a <= b THEN a ELSE b
Max2(a, b) == IF a <= b THEN b ELSE a

\* ------------------------------------------------------------------------
\* Bounds of the model
\* ------------------------------------------------------------------------
\* the matcher is explored on score matrices with at most MaxCells cells
MaxCells == 4

\* line-pair scores the matrix cells are drawn from (all in [0,1])
ScoreValues == {Rat(0, 1), Rat(1, 2), Rat(13, 20), Rat(7, 10), Rat(4, 5), Rat(1, 1)}

\* the lines files are made of
FileLines ==
  {<<"a", "b", "=", "1">>,
   <<"a", "b", "=", "1", " ", "/", "/", "x">>,
   <<"/", "/", "y", "z">>,
   <<"a", "b", "=", "2">>,
   <<"/", "*", "a", "b">>,
   <<"/", "*", "c">>,
   <<"r", "e", "t", "u", "r", "n", " ", "a">>,
   <<"r", "e", "t", "u", "r", "n", " ", "a", "b">>}

\* the lines single lines are scored on and texts are preprocessed from: lines
\* of 1, 3 and 4 characters, a trivial word, a bare import keyword, an import
\* with content, trailing and leading white space, upper case, comments, a
\* line of white space, a line without a token, lines that share no token
\* with the others, and two lines whose longest common subsequence is 3 of
\* their 20 characters
LinePool ==
  {<<"a", "b", "=", "1">>,
   <<"a", "b", "=", "2">>,
   <<"/", "*", "a", "b">>,
   <<"x", "=", "1">>,
   <<"e", "l", "s", "e">>,
   <<"i", "m", "p", "o", "r", "t", " ">>,
   <<"a", "b", "=", "1", " ", " ">>,
   <<" ", "A", "B", "=", "1", " ", "/", "/", "x">>,
   <<"{">>,
   << >>,
   <<"f", "(", "a", ")", "+", "1">>,
   <<"/", "/", "y", "z">>,
   <<"f", "r", "o", "m", " ", "x">>,
   <<" ">>,
   <<"f", "(", "a", ")">>,
   <<"r", "e", "t", "u", "r", "n", " ", "7">>,
   <<"a", "b", "c", "x", "y", "z">>,
   <<"a", "b", "c", "d", "e", "f", "g", "h", "i", "j", "k", "l", "m", "n">>}

\* the lines content.split('\n') gives on these files and texts: the empty
\* file has one empty line
SourceLines == FileLines \cup LinePool \cup {<< >>}

\* the thresholds of testThresholdSensitivity, with the ends of [0,1]
Thresholds == <<Rat(0, 1), Rat(3, 10), Rat(1, 2), Rat(7, 10), Rat(9, 10), Rat(1, 1)>>

\* ------------------------------------------------------------------------
\* Characters. A line is a sequence of one-character strings; a file's
\* content is a sequence of characters in which "\n" separates the lines.
\* ------------------------------------------------------------------------
UpperCase == <<"A", "B", "C", "D", "E", "F", "G", "H", "I", "J", "K", "L", "M", "N", "O", "P", "Q", "R", "S", "T", "U", "V", "W", "X", "Y", "Z">>
LowerCase == <<"a", "b", "c", "d", "e", "f", "g", "h", "i", "j", "k", "l", "m", "n", "o", "p", "q", "r", "s", "t", "u", "v", "w", "x", "y", "z">>
Digits == {"0", "1", "2", "3", "4", "5", "6", "7", "8", "9"}

Range(s) == {s[k] : k \in 1..Len(s)}

\* \w
IsWordChar(c) == c \in Range(UpperCase) \cup Range(LowerCase) \cup Digits \cup {"_"}
\* \s
IsSpace(c) == c \in {" ", "\t", "\r", "\n"}
\* what "." does not match
IsLineTerminator(c) == c \in {"\n", "\r"}

ToLowerChar(c) ==
  IF c \in Range(UpperCase)
    THEN LowerCase[CHOOSE k \in 1..Len(UpperCase) : UpperCase[k] = c]
    ELSE c

StartsWith(s, prefix) ==
  /\ Len(s) >= Len(prefix)
  /\ SubSeq(s, 1, Len(prefix)) = prefix

\* String.prototype.includes
Includes(s, sub) ==
  \E k \in 1..(Len(s) - Len(sub) + 1) : SubSeq(s, k, k + Len(sub) - 1) = sub

\* the least position >= from at which sub occurs in s, 0 if there is none
IndexFrom(s, sub, from) ==
  LET hits == {k \in from..(Len(s) - Len(sub) + 1) :
                 SubSeq(s, k, k + Len(sub) - 1) = sub}
  IN IF hits = {} THEN 0 ELSE CHOOSE k \in hits : \A h \in hits : k <= h

NoLineTerminator(s) == \A k \in 1..Len(s) : ~IsLineTerminator(s[k])

\* String.prototype.trimEnd
RECURSIVE TrimEnd(_)
TrimEnd(s) ==
  IF s # << >> /\ IsSpace(s[Len(s)]) THEN TrimEnd(SubSeq(s, 1, Len(s) - 1)) ELSE s

RECURSIVE TrimStart(_)
TrimStart(s) ==
  IF s # << >> /\ IsSpace(Head(s)) THEN TrimStart(Tail(s)) ELSE s

\* String.prototype.trim
Trim(s) == TrimStart(TrimEnd(s))

\* content.split('\n')
RECURSIVE SplitLines(_)
SplitLines(content) ==
  LET nl == IndexFrom(content, <<"\n">>, 1)
  IN IF nl = 0 THEN << content >>
     ELSE << SubSeq(content, 1, nl - 1) >> \o
          SplitLines(SubSeq(content, nl + 1, Len(content)))

\* ------------------------------------------------------------------------
\* normalizeLine
\* ------------------------------------------------------------------------
\* a comment of the form open ... close that starts at the head of s: the
\* position just after it, 0 if s does not start with one
BlockCommentEnd(s, open, close) ==
  IF ~StartsWith(s, open) THEN 0
  ELSE LET q == IndexFrom(s, close, Len(open) + 1)
       IN IF q = 0 \/ ~NoLineTerminator(SubSeq(s, Len(open) + 1, q - 1))
            THEN 0 ELSE q + Len(close)

\* RemoveComments without the alternative \/\/.*$
RECURSIVE RemoveCommentsKeepSlashSlash(_)
RemoveCommentsKeepSlashSlash(s) ==
  IF s = << >> THEN << >>
  ELSE IF Head(s) = "#" /\ NoLineTerminator(Tail(s))
    THEN << >>
  ELSE IF BlockCommentEnd(s, <<"/", "*">>, <<"*", "/">>) # 0
    THEN RemoveCommentsKeepSlashSlash(
           SubSeq(s, BlockCommentEnd(s, <<"/", "*">>, <<"*", "/">>), Len(s)))
  ELSE IF BlockCommentEnd(s, <<"<", "!", "-", "-">>, <<"-", "-", ">">>) # 0
    THEN RemoveCommentsKeepSlashSlash(SubSeq(s,
           BlockCommentEnd(s, <<"<", "!", "-", "-">>, <<"-", "-", ">">>), Len(s)))
  ELSE << Head(s) >> \o RemoveCommentsKeepSlashSlash(Tail(s))

\* line.replace(/\/\/.*$|#.*$|\/\*.*?\*\/|<!--.*?-->/g, '')
RECURSIVE RemoveComments(_)
RemoveComments(s) ==
  IF s = << >> THEN << >>
  ELSE IF StartsWith(s, <<"/", "/">>) /\ NoLineTerminator(SubSeq(s, 3, Len(s)))
    THEN << >>
  ELSE IF Head(s) = "#" /\ NoLineTerminator(Tail(s))
    THEN << >>
  ELSE IF BlockCommentEnd(s, <<"/", "*">>, <<"*", "/">>) # 0
    THEN RemoveComments(SubSeq(s, BlockCommentEnd(s, <<"/", "*">>, <<"*", "/">>), Len(s)))
  ELSE IF BlockCommentEnd(s, <<"<", "!", "-", "-">>, <<"-", "-", ">">>) # 0
    THEN RemoveComments(SubSeq(s,
           BlockCommentEnd(s, <<"<", "!", "-", "-">>, <<"-", "-", ">">>), Len(s)))
  ELSE << Head(s) >> \o RemoveComments(Tail(s))

\* line.replace(/\s+/g, ' ')
RECURSIVE CollapseSpaces(_)
CollapseSpaces(s) ==
  IF s = << >> THEN << >>
  ELSE IF IsSpace(Head(s))
    THEN << " " >> \o CollapseSpaces(TrimStart(s))
  ELSE << Head(s) >> \o CollapseSpaces(Tail(s))

ToLowerCase(s) == [k \in 1..Len(s) |-> ToLowerChar(s[k])]

normalizeLine(line) == ToLowerCase(Trim(CollapseSpaces(RemoveComments(line))))

\* ------------------------------------------------------------------------
\* isTrivialLine, preprocessFile
\* ------------------------------------------------------------------------
trivialPatterns ==
  {<<"{">>, <<"}">>, <<"(">>, <<")">>, <<"[">>, <<"]">>, <<";">>, <<":">>,
   <<",">>, <<"e", "l", "s", "e">>, <<"e", "n", "d">>,
   <<"p", "a", "s", "s">>, <<"b", "r", "e", "a", "k">>,
   <<"c", "o", "n", "t", "i", "n", "u", "e">>}

ImportWords ==
  {<<"i", "m", "p", "o", "r", "t">>, <<"i", "n", "c", "l", "u", "d", "e">>,
   <<"u", "s", "i", "n", "g">>, <<"f", "r", "o", "m">>}

\* isTrivialLine without the test of the import keywords
isTrivialLineKeepImports(normalizedLine) ==
  LET line == Trim(normalizedLine)
  IN \/ line \in trivialPatterns
     \/ Len(line) <= 2
     \/ \A k \in 1..Len(line) : IsSpace(line[k])

isTrivialLine(normalizedLine) ==
  LET line == Trim(normalizedLine)
  IN \/ line \in trivialPatterns
     \/ Len(line) <= 2
     \/ \A k \in 1..Len(line) : IsSpace(line[k])
     \* /^(import|include|using|from)\s*$/
     \/ \E w \in ImportWords :
          /\ StartsWith(line, w)
          /\ \A k \in (Len(w) + 1)..Len(line) : IsSpace(line[k])

\* the test preprocessFile applies to each line
IsMeaningful(line) ==
  LET normalized == normalizeLine(line)
  IN normalized # << >> /\ Len(normalized) > 3 /\ ~isTrivialLine(normalized)

\* IsMeaningful of each source line, evaluated once
KeptLine == [line \in SourceLines |-> IsMeaningful(line)]

\* MeaningfulLines with unshift in the place of push
RECURSIVE MeaningfulLinesNewestFirst(_)
MeaningfulLinesNewestFirst(lines) ==
  IF lines = << >> THEN << >>
  ELSE MeaningfulLinesNewestFirst(Tail(lines))
       \o (IF KeptLine[Head(lines)] THEN << TrimEnd(Head(lines)) >> ELSE << >>)

RECURSIVE MeaningfulLines(_)
MeaningfulLines(lines) ==
  IF lines = << >> THEN << >>
  ELSE (IF KeptLine[Head(lines)] THEN << TrimEnd(Head(lines)) >> ELSE << >>)
       \o MeaningfulLines(Tail(lines))

\* fs.readFileSync on a file system fs: the content, or the exception
ENOENT == "ENOENT"
readFileSync(fs, filepath) ==
  IF filepath \in DOMAIN fs
    THEN [threw |-> FALSE, content |-> fs[filepath]]
    ELSE [threw |-> TRUE, content |-> << >>]

\* preprocessFile without its try/catch
preprocessFileNoCatch(fs, filepath) ==
  LET read == readFileSync(fs, filepath)
  IN IF read.threw THEN [threw |-> TRUE, lines |-> << >>]
     ELSE [threw |-> FALSE, lines |-> MeaningfulLines(SplitLines(read.content))]

\* preprocessFile: the catch block turns the exception into an empty list
preprocessFile(fs, filepath) ==
  LET read == readFileSync(fs, filepath)
  IN IF read.threw THEN [threw |-> FALSE, lines |-> << >>]
     ELSE [threw |-> FALSE, lines |-> MeaningfulLines(SplitLines(read.content))]

\* ------------------------------------------------------------------------
\* tokenizeLine, extractStructuralFeatures
\* ------------------------------------------------------------------------
structuralKeywords ==
  {<<"i", "f">>, <<"e", "l", "s", "e">>, <<"e", "l", "i", "f">>,
   <<"f", "o", "r">>, <<"w", "h", "i", "l", "e">>, <<"d", "o">>,
   <<"s", "w", "i", "t", "c", "h">>, <<"c", "a", "s", "e">>,
   <<"f", "u", "n", "c", "t", "i", "o", "n">>, <<"d", "e", "f">>,
   <<"c", "l", "a", "s", "s">>, <<"r", "e", "t", "u", "r", "n">>,
   <<"b", "r", "e", "a", "k">>, <<"c", "o", "n", "t", "i", "n", "u", "e">>,
   <<"t", "r", "y">>, <<"c", "a", "t", "c", "h">>,
   <<"f", "i", "n", "a", "l", "l", "y">>, <<"t", "h", "r", "o", "w">>,
   <<"i", "m", "p", "o", "r", "t">>, <<"f", "r", "o", "m">>}

operators ==
  {<<"+">>, <<"-">>, <<"*">>, <<"/">>, <<"%">>, <<"=">>, <<"=", "=">>,
   <<"!", "=">>, <<"<">>, <<">">>, <<"<", "=">>, <<">", "=">>, <<"&", "&">>,
   <<"|", "|">>, <<"!">>, <<"&">>, <<"|">>, <<"^">>, <<"+", "+">>,
   <<"-", "-">>}

\* the length of the run of word characters at the head of s
RECURSIVE WordRun(_)
WordRun(s) ==
  IF s # << >> /\ IsWordChar(Head(s)) THEN 1 + WordRun(Tail(s)) ELSE 0

\* normalized.match(/\w+|[^\w\s]/g)
RECURSIVE MatchTokens(_)
MatchTokens(s) ==
  IF s = << >> THEN << >>
  ELSE IF IsWordChar(Head(s))
    THEN << SubSeq(s, 1, WordRun(s)) >> \o MatchTokens(SubSeq(s, WordRun(s) + 1, Len(s)))
  ELSE IF IsSpace(Head(s)) THEN MatchTokens(Tail(s))
  ELSE << << Head(s) >> >> \o MatchTokens(Tail(s))

HasDigit(token) == \E k \in 1..Len(token) : token[k] \in Digits

RECURSIVE FilterTokens(_)
FilterTokens(tokens) ==
  IF tokens = << >> THEN << >>
  ELSE (IF \/ Len(Head(tokens)) > 1
           \/ Head(tokens) \in operators
           \/ HasDigit(Head(tokens))
          THEN << Head(tokens) >> ELSE << >>) \o FilterTokens(Tail(tokens))

tokenizeLine(line) == FilterTokens(MatchTokens(normalizeLine(line)))

\* normalized.match(/\b\w+\b/g)
RECURSIVE MatchWords(_)
MatchWords(s) ==
  IF s = << >> THEN << >>
  ELSE IF IsWordChar(Head(s))
    THEN << SubSeq(s, 1, WordRun(s)) >> \o MatchWords(SubSeq(s, WordRun(s) + 1, Len(s)))
  ELSE MatchWords(Tail(s))

\* the last character before position p that is not a space is a word character
WordBefore(s, p) ==
  \E k \in 1..(p - 1) :
    /\ IsWordChar(s[k])
    /\ \A m \in (k + 1)..(p - 1) : IsSpace(s[m])

\* /\b\w+\s*\(.*?\)/
HasFunctionCall(s) ==
  \E p \in 1..Len(s) :
    /\ s[p] = "(" /\ WordBefore(s, p)
    /\ \E q \in (p + 1)..Len(s) :
         s[q] = ")" /\ NoLineTerminator(SubSeq(s, p + 1, q - 1))

\* /\b\w+\s*=/
HasAssignment(s) == \E p \in 1..Len(s) : s[p] = "=" /\ WordBefore(s, p)

\* /open.*?close/ for one-character open and close
HasBracketed(s, open, close) ==
  \E p \in 1..Len(s) :
    /\ s[p] = open
    /\ \E q \in (p + 1)..Len(s) :
         s[q] = close /\ NoLineTerminator(SubSeq(s, p + 1, q - 1))

\* /"[^"]*"|'[^']*'/
HasStringLiteral(s) ==
  \E quote \in {"\"", "'"} :
    \E p, q \in 1..Len(s) : p < q /\ s[p] = quote /\ s[q] = quote

\* /\b\d+(\.\d+)?\b/
HasNumericLiteral(s) ==
  \E p \in 1..Len(s) :
    \E q \in p..Len(s) :
      /\ \A k \in p..q : s[k] \in Digits
      /\ p = 1 \/ ~IsWordChar(s[p - 1])
      /\ q = Len(s) \/ ~IsWordChar(s[q + 1])

extractStructuralFeatures(line) ==
  LET normalized == normalizeLine(line)
      words == MatchWords(normalized)
  IN {<<"keyword", words[k]>> : k \in {m \in 1..Len(words) : words[m] \in structuralKeywords}}
     \cup {<<"operator", op>> : op \in {o \in operators : Includes(normalized, o)}}
     \cup (IF HasFunctionCall(normalized) THEN {<<"pattern", <<"function_call">> >>} ELSE {})
     \cup (IF HasAssignment(normalized) THEN {<<"pattern", <<"assignment">> >>} ELSE {})
     \cup (IF HasBracketed(normalized, "[", "]") THEN {<<"pattern", <<"indexing">> >>} ELSE {})
     \cup (IF HasBracketed(normalized, "{", "}") THEN {<<"pattern", <<"block_or_object">> >>} ELSE {})
     \cup (IF HasStringLiteral(normalized) THEN {<<"pattern", <<"string_literal">> >>} ELSE {})
     \cup (IF HasNumericLiteral(normalized) THEN {<<"pattern", <<"numeric_literal">> >>} ELSE {})

\* ------------------------------------------------------------------------
\* calculateSequenceSimilarity, calculateStringSimilarity, calculateLineSimilarity
\* ------------------------------------------------------------------------
\* row i of the dp table from row i - 1; dp[i][j] is kept at position j + 1
\* LcsRow taking dp[i - 1][j] alone where the elements differ
RECURSIVE LcsRowFromAbove(_, _, _, _)
LcsRowFromAbove(prev, x, seqB, row) ==
  IF Len(row) = Len(seqB) + 1 THEN row
  ELSE LET j == Len(row)
       IN LcsRowFromAbove(prev, x, seqB,
                 Append(row, IF x = seqB[j] THEN prev[j] + 1 ELSE prev[j + 1]))

RECURSIVE LcsRow(_, _, _, _)
LcsRow(prev, x, seqB, row) ==
  IF Len(row) = Len(seqB) + 1 THEN row
  ELSE LET j == Len(row)
       IN LcsRow(prev, x, seqB,
                 Append(row, IF x = seqB[j] THEN prev[j] + 1
                                            ELSE Max2(prev[j + 1], row[j])))

RECURSIVE LcsRows(_, _, _)
LcsRows(seqA, seqB, prev) ==
  IF seqA = << >> THEN prev[Len(seqB) + 1]
  ELSE LcsRows(Tail(seqA), seqB, LcsRow(prev, Head(seqA), seqB, << 0 >>))

\* dp[lenA][lenB]
LcsLength(seqA, seqB) == LcsRows(seqA, seqB, [j \in 1..(Len(seqB) + 1) |-> 0])

calculateSequenceSimilarity(seqA, seqB) ==
  IF Len(seqA) = 0 /\ Len(seqB) = 0 THEN One
  ELSE IF Len(seqA) = 0 \/ Len(seqB) = 0 THEN Zero
  ELSE Rat(2 * LcsLength(seqA, seqB), Len(seqA) + Len(seqB))

calculateStringSimilarity(strA, strB) ==
  IF Len(strA) = 0 /\ Len(strB) = 0 THEN One
  ELSE IF Len(strA) = 0 \/ Len(strB) = 0 THEN Zero
  ELSE Rat(2 * LcsLength(strA, strB), Len(strA) + Len(strB))

genericPatterns ==
  {<<"{">>, <<"}">>, <<"(">>, <<")">>, <<"[">>, <<"]">>, <<";">>, <<":">>, <<",">>}

\* Components with the token overlap taken over the tokens of lineA alone
ComponentsOverlapOfA(lineA, lineB) ==
  LET tokensA == tokenizeLine(lineA)
      tokensB == tokenizeLine(lineB)
      featuresA == extractStructuralFeatures(lineA)
      featuresB == extractStructuralFeatures(lineB)
      setA == Range(tokensA)
      setB == Range(tokensB)
      featureIntersection == featuresA \cap featuresB
      featureUnion == featuresA \cup featuresB
      patternOverlap ==
        Rat(Cardinality(featureIntersection),
            Max2(Cardinality(featuresA), Cardinality(featuresB)))
  IN [jaccard |-> IF Cardinality(setA) > 0
                    THEN Rat(Cardinality(setA \cap setB), Cardinality(setA))
                    ELSE Zero,
      sequenceSimilarity |-> calculateSequenceSimilarity(tokensA, tokensB),
      structuralSimilarity |->
        IF Cardinality(featureUnion) > 0
          THEN Rat(Cardinality(featureIntersection), Cardinality(featureUnion))
          ELSE Zero,
      stringSimilarity |->
        calculateStringSimilarity(normalizeLine(lineA), normalizeLine(lineB)),
      enhancedStructural |->
        IF featuresA # {} /\ featuresB # {} /\ RGt(patternOverlap, Rat(1, 2))
          THEN patternOverlap ELSE Zero]

\* the four component scores and the enhanced structural score of two lines
Components(lineA, lineB) ==
  LET tokensA == tokenizeLine(lineA)
      tokensB == tokenizeLine(lineB)
      featuresA == extractStructuralFeatures(lineA)
      featuresB == extractStructuralFeatures(lineB)
      setA == Range(tokensA)
      setB == Range(tokensB)
      union == setA \cup setB
      featureIntersection == featuresA \cap featuresB
      featureUnion == featuresA \cup featuresB
      patternOverlap ==
        Rat(Cardinality(featureIntersection),
            Max2(Cardinality(featuresA), Cardinality(featuresB)))
  IN [jaccard |-> IF Cardinality(union) > 0
                    THEN Rat(Cardinality(setA \cap setB), Cardinality(union))
                    ELSE Zero,
      sequenceSimilarity |-> calculateSequenceSimilarity(tokensA, tokensB),
      structuralSimilarity |->
        IF Cardinality(featureUnion) > 0
          THEN Rat(Cardinality(featureIntersection), Cardinality(featureUnion))
          ELSE Zero,
      stringSimilarity |->
        calculateStringSimilarity(normalizeLine(lineA), normalizeLine(lineB)),
      enhancedStructural |->
        IF featuresA # {} /\ featuresB # {} /\ RGt(patternOverlap, Rat(1, 2))
          THEN patternOverlap ELSE Zero]

\* CombineComponents with every weight 1
CombineComponentsUnweighted(c) ==
  IF /\ RLt(c.jaccard, Rat(1, 10))
     /\ RLt(c.sequenceSimilarity, Rat(1, 5))
     /\ RLt(c.stringSimilarity, Rat(3, 10)) THEN Zero
  ELSE IF RGt(c.stringSimilarity, Rat(7, 10))
    THEN RMax(Zero,
           RAdd(RAdd(c.stringSimilarity, c.sequenceSimilarity),
                RAdd(c.enhancedStructural, c.jaccard)))
  ELSE RMax(Zero,
         RAdd(RAdd(c.sequenceSimilarity, c.stringSimilarity),
              RAdd(c.jaccard, c.structuralSimilarity)))

\* CombineComponents without the minimum-overlap test
CombineComponentsNoGate(c) ==
  IF RGt(c.stringSimilarity, Rat(7, 10))
    THEN RMax(Zero,
           RAdd(RAdd(RMul(Rat(40, 100), c.stringSimilarity),
                     RMul(Rat(25, 100), c.sequenceSimilarity)),
                RAdd(RMul(Rat(20, 100), c.enhancedStructural),
                     RMul(Rat(15, 100), c.jaccard))))
  ELSE RMax(Zero,
         RAdd(RAdd(RMul(Rat(35, 100), c.sequenceSimilarity),
                   RMul(Rat(30, 100), c.stringSimilarity)),
              RAdd(RMul(Rat(20, 100), c.jaccard),
                   RMul(Rat(15, 100), c.structuralSimilarity))))

\* the minimum-overlap test and the adaptive weighted combination
CombineComponents(c) ==
  IF /\ RLt(c.jaccard, Rat(1, 10))
     /\ RLt(c.sequenceSimilarity, Rat(1, 5))
     /\ RLt(c.stringSimilarity, Rat(3, 10)) THEN Zero
  ELSE IF RGt(c.stringSimilarity, Rat(7, 10))
    THEN RMax(Zero,
           RAdd(RAdd(RMul(Rat(40, 100), c.stringSimilarity),
                     RMul(Rat(25, 100), c.sequenceSimilarity)),
                RAdd(RMul(Rat(20, 100), c.enhancedStructural),
                     RMul(Rat(15, 100), c.jaccard))))
  ELSE RMax(Zero,
         RAdd(RAdd(RMul(Rat(35, 100), c.sequenceSimilarity),
                   RMul(Rat(30, 100), c.stringSimilarity)),
              RAdd(RMul(Rat(20, 100), c.jaccard),
                   RMul(Rat(15, 100), c.structuralSimilarity))))

\* calculateLineSimilarity without the return for identical normalized forms
calculateLineSimilarityNoExactMatch(lineA, lineB) ==
  LET normA == normalizeLine(lineA)
      normB == normalizeLine(lineB)
  IN IF Trim(lineA) = << >> \/ Trim(lineB) = << >> THEN Zero
     ELSE IF Len(normA) <= 2 \/ Len(normB) <= 2
       THEN (IF normA = normB THEN One ELSE Zero)
     ELSE IF Trim(normA) \in genericPatterns \/ Trim(normB) \in genericPatterns
       THEN (IF normA = normB THEN One ELSE Zero)
     ELSE IF tokenizeLine(lineA) = << >> \/ tokenizeLine(lineB) = << >> THEN Zero
     ELSE CombineComponents(Components(lineA, lineB))

\* calculateLineSimilarity comparing the normalized forms before the test
\* for a blank line
calculateLineSimilarityEqualFirst(lineA, lineB) ==
  LET normA == normalizeLine(lineA)
      normB == normalizeLine(lineB)
  IN IF normA = normB THEN One
     ELSE IF Trim(lineA) = << >> \/ Trim(lineB) = << >> THEN Zero
     ELSE IF Len(normA) <= 2 \/ Len(normB) <= 2 THEN Zero
     ELSE IF Trim(normA) \in genericPatterns \/ Trim(normB) \in genericPatterns THEN Zero
     ELSE IF tokenizeLine(lineA) = << >> \/ tokenizeLine(lineB) = << >> THEN Zero
     ELSE CombineComponents(Components(lineA, lineB))

calculateLineSimilarity(lineA, lineB) ==
  LET normA == normalizeLine(lineA)
      normB == normalizeLine(lineB)
  IN IF Trim(lineA) = << >> \/ Trim(lineB) = << >> THEN Zero
     ELSE IF normA = normB THEN One
     ELSE IF Len(normA) <= 2 \/ Len(normB) <= 2 THEN Zero
     ELSE IF Trim(normA) \in genericPatterns \/ Trim(normB) \in genericPatterns THEN Zero
     ELSE IF tokenizeLine(lineA) = << >> \/ tokenizeLine(lineB) = << >> THEN Zero
     ELSE CombineComponents(Components(lineA, lineB))

\* the lines preprocessFile can store
StoredLines == {TrimEnd(line) : line \in FileLines}

\* calculateLineSimilarity of each pair of stored lines, evaluated once
LineSimilarity ==
  [lineA \in StoredLines |->
    [lineB \in StoredLines |-> calculateLineSimilarity(lineA, lineB)]]

\* ------------------------------------------------------------------------
\* findSimilarLines
\* ------------------------------------------------------------------------
\* the similarity matrix: a cell below the threshold is stored as 0.0
SimilarityMatrix(nA, nB, score, threshold) ==
  [i \in 0..(nA - 1) |->
    [j \in 0..(nB - 1) |->
      IF RGe(score[i][j], threshold) THEN score[i][j] ELSE Zero]]

\* PotentialMatches with the inner loop starting at j = i + 1
PotentialMatchesAboveDiagonal(nA, nB, matrix, threshold) ==
  LET F[k \in 0..(nA * nB)] ==
        IF k = nA * nB THEN << >>
        ELSE LET i == k \div nB
                 j == k % nB
             IN (IF j > i /\ RGe(matrix[i][j], threshold)
                   THEN << [i |-> i, j |-> j, score |-> matrix[i][j]] >>
                   ELSE << >>) \o F[k + 1]
  IN F[0]

\* PotentialMatches without the test of the threshold
PotentialMatchesAllCells(nA, nB, matrix, threshold) ==
  LET F[k \in 0..(nA * nB)] ==
        IF k = nA * nB THEN << >>
        ELSE LET i == k \div nB
                 j == k % nB
             IN << [i |-> i, j |-> j, score |-> matrix[i][j]] >> \o F[k + 1]
  IN F[0]

\* PotentialMatches with the test similarityMatrix[i][j] > threshold
PotentialMatchesStrict(nA, nB, matrix, threshold) ==
  LET F[k \in 0..(nA * nB)] ==
        IF k = nA * nB THEN << >>
        ELSE LET i == k \div nB
                 j == k % nB
             IN (IF RGt(matrix[i][j], threshold)
                   THEN << [i |-> i, j |-> j, score |-> matrix[i][j]] >>
                   ELSE << >>) \o F[k + 1]
  IN F[0]

\* all cells at or above the threshold, in enumeration order (i, then j)
PotentialMatches(nA, nB, matrix, threshold) ==
  LET F[k \in 0..(nA * nB)] ==
        IF k = nA * nB THEN << >>
        ELSE LET i == k \div nB
                 j == k % nB
             IN (IF RGe(matrix[i][j], threshold)
                   THEN << [i |-> i, j |-> j, score |-> matrix[i][j]] >>
                   ELSE << >>) \o F[k + 1]
  IN F[0]

\* InsertByScore as the comparator a.score - b.score would order it
RECURSIVE InsertByScoreAscending(_, _)
InsertByScoreAscending(sorted, c) ==
  IF sorted = << >> THEN << c >>
  ELSE IF RLt(c.score, Head(sorted).score) THEN << c >> \o sorted
  ELSE << Head(sorted) >> \o InsertByScoreAscending(Tail(sorted), c)

\* InsertByScore as a sort that is not stable would order it: c goes before
\* the elements of its own score
RECURSIVE InsertByScoreBeforeEqual(_, _)
InsertByScoreBeforeEqual(sorted, c) ==
  IF sorted = << >> THEN << c >>
  ELSE IF RLe(Head(sorted).score, c.score) THEN << c >> \o sorted
  ELSE << Head(sorted) >> \o InsertByScoreBeforeEqual(Tail(sorted), c)

\* one step of the stable sort: c goes after every element whose score is
\* not smaller than its own
RECURSIVE InsertByScore(_, _)
InsertByScore(sorted, c) ==
  IF sorted = << >> THEN << c >>
  ELSE IF RLt(Head(sorted).score, c.score) THEN << c >> \o sorted
  ELSE << Head(sorted) >> \o InsertByScore(Tail(sorted), c)

\* SortByScoreDesc leaving the candidates in the order they were pushed
SortByScoreDescUnsorted(s) == s

\* potentialMatches.sort((a, b) => b.score - a.score)
RECURSIVE SortByScoreDesc(_)
SortByScoreDesc(s) ==
  IF s = << >> THEN << >>
  ELSE InsertByScore(SortByScoreDesc(SubSeq(s, 1, Len(s) - 1)), s[Len(s)])

\* the state of the selection loop before its first iteration
SelectInit == [matches |-> << >>, usedA |-> {}, usedB |-> {}]

\* SelectStep without the test of usedBIndices
SelectStepNoUsedB(st, c) ==
  IF c.i \notin st.usedA
    THEN [matches |-> Append(st.matches,
                       [lineAIndex |-> c.i, lineBIndex |-> c.j, score |-> c.score]),
          usedA |-> st.usedA \cup {c.i},
          usedB |-> st.usedB \cup {c.j}]
    ELSE st

\* SelectStep recording the positions counted from 1
SelectStepFromOne(st, c) ==
  IF c.i \notin st.usedA /\ c.j \notin st.usedB
    THEN [matches |-> Append(st.matches,
                       [lineAIndex |-> c.i + 1, lineBIndex |-> c.j + 1,
                        score |-> c.score]),
          usedA |-> st.usedA \cup {c.i},
          usedB |-> st.usedB \cup {c.j}]
    ELSE st

\* SelectStep without the test of usedAIndices
SelectStepNoUsedA(st, c) ==
  IF c.j \notin st.usedB
    THEN [matches |-> Append(st.matches,
                       [lineAIndex |-> c.i, lineBIndex |-> c.j, score |-> c.score]),
          usedA |-> st.usedA \cup {c.i},
          usedB |-> st.usedB \cup {c.j}]
    ELSE st

\* one iteration of the selection loop
SelectStep(st, c) ==
  IF c.i \notin st.usedA /\ c.j \notin st.usedB
    THEN [matches |-> Append(st.matches,
                       [lineAIndex |-> c.i, lineBIndex |-> c.j, score |-> c.score]),
          usedA |-> st.usedA \cup {c.i},
          usedB |-> st.usedB \cup {c.j}]
    ELSE st

RECURSIVE SelectAll(_, _)
SelectAll(st, cands) ==
  IF cands = << >> THEN st
  ELSE SelectAll(SelectStep(st, Head(cands)), Tail(cands))

SortedCandidates(nA, nB, score, threshold) ==
  SortByScoreDesc(PotentialMatches(nA, nB,
                    SimilarityMatrix(nA, nB, score, threshold), threshold))

\* findSimilarLines on a table of line-pair scores
FindSimilarLinesByScore(nA, nB, score, threshold) ==
  SelectAll(SelectInit, SortedCandidates(nA, nB, score, threshold)).matches

\* ------------------------------------------------------------------------
\* analyzeCodeSimilarity: statistics over the committed matches
\* ------------------------------------------------------------------------
VeryHigh == "Very High Similarity - Likely identical or minimal changes"
High == "High Similarity - Possible plagiarism or close modification"
Moderate == "Moderate Similarity - Some common patterns or logic"
Low == "Low Similarity - Limited common elements"
VeryLow == "Very Low Similarity - Largely different code"

ErrorText == "One or both files could not be read or contain no meaningful code"
\* the value of a result's error field when the field is absent
Undefined == "undefined"

interpretSimilarity(percentage, avgScore) ==
  IF RGe(percentage, Int2Rat(90)) THEN VeryHigh
  ELSE IF RGe(percentage, Int2Rat(70)) THEN High
  ELSE IF RGe(percentage, Int2Rat(40)) THEN Moderate
  ELSE IF RGe(percentage, Int2Rat(20)) THEN Low
  ELSE VeryLow

\* similarMatches.reduce((sum, match) => sum + match.score, 0)
RECURSIVE TotalScore(_)
TotalScore(matches) ==
  IF matches = << >> THEN Zero
  ELSE RAdd(TotalScore(SubSeq(matches, 1, Len(matches) - 1)),
            matches[Len(matches)].score)

Coverage(count, total) == RMul(Rat(count, total), Int2Rat(100))

AvgQuality(matches) == RDiv(TotalScore(matches), Int2Rat(Len(matches)))

HighCoverage(matches, totalLinesA, totalLinesB) ==
  RGt(RMin(Coverage(Len(matches), totalLinesA),
           Coverage(Len(matches), totalLinesB)), Int2Rat(75))

\* HighQuality with the test avgQuality >= 0.7
HighQualityInclusive(matches) == RGe(AvgQuality(matches), Rat(7, 10))

HighQuality(matches) == RGt(AvgQuality(matches), Rat(7, 10))

\* SimilarSize with the comparison turned round
SimilarSizeInverted(totalLinesA, totalLinesB) ==
  RGt(Rat(Abs(totalLinesA - totalLinesB), Max2(totalLinesA, totalLinesB)),
      Rat(1, 4))

SimilarSize(totalLinesA, totalLinesB) ==
  RLt(Rat(Abs(totalLinesA - totalLinesB), Max2(totalLinesA, totalLinesB)),
      Rat(1, 4))

\* which arm of the percentage formula a match list takes
PercentageBranch(matches, totalLinesA, totalLinesB) ==
  IF Len(matches) = 0 THEN "none"
  ELSE IF /\ HighCoverage(matches, totalLinesA, totalLinesB)
          /\ HighQuality(matches)
          /\ SimilarSize(totalLinesA, totalLinesB) THEN "boosted"
  ELSE IF RGt(AvgQuality(matches), Rat(3, 5)) THEN "balanced"
  ELSE "conservative"

\* SimilarityPercentage without Math.min(100.0, ...) in the boosted arm
SimilarityPercentageUncapped(matches, totalLinesA, totalLinesB) ==
  LET coverageA == Coverage(Len(matches), totalLinesA)
      coverageB == Coverage(Len(matches), totalLinesB)
      avgQuality == AvgQuality(matches)
      avgCoverage == RDiv(RAdd(coverageA, coverageB), Int2Rat(2))
      branch == PercentageBranch(matches, totalLinesA, totalLinesB)
  IN IF branch = "none" THEN Zero
     ELSE IF branch = "boosted"
       THEN RMul(RMul(RMax(coverageA, coverageB), avgQuality), Rat(11, 10))
     ELSE IF branch = "balanced"
       THEN RMul(RMul(avgCoverage, avgQuality), Rat(21, 20))
     ELSE RMul(avgCoverage, avgQuality)

\* the unrounded similarityPercentage
SimilarityPercentage(matches, totalLinesA, totalLinesB) ==
  LET coverageA == Coverage(Len(matches), totalLinesA)
      coverageB == Coverage(Len(matches), totalLinesB)
      avgQuality == AvgQuality(matches)
      avgCoverage == RDiv(RAdd(coverageA, coverageB), Int2Rat(2))
      branch == PercentageBranch(matches, totalLinesA, totalLinesB)
  IN IF branch = "none" THEN Zero
     ELSE IF branch = "boosted"
       THEN RMin(Int2Rat(100),
                 RMul(RMul(RMax(coverageA, coverageB), avgQuality), Rat(11, 10)))
     ELSE IF branch = "balanced"
       THEN RMul(RMul(avgCoverage, avgQuality), Rat(21, 20))
     ELSE RMul(avgCoverage, avgQuality)

\* ScoreRange with Math.round in the place of Math.floor
ScoreRangeRounded(score) ==
  LET lo == RRound(RMul(score, Int2Rat(10))) * 10 IN <<lo, lo + 9>>

\* the label `${lo}%-${lo + 9}%` of a score, as the pair of its two numbers
ScoreRange(score) ==
  LET lo == RFloor(RMul(score, Int2Rat(10))) * 10 IN <<lo, lo + 9>>

SimilarityDistribution(matches) ==
  [r \in {ScoreRange(matches[k].score) : k \in 1..Len(matches)} |->
     Cardinality({k \in 1..Len(matches) : ScoreRange(matches[k].score) = r})]

\* Math.round(x * scale) / scale
RoundTo(x, scale) == Rat(RRound(RMul(x, Int2Rat(scale))), scale)

\* the early return for an empty line list
ZeroResult(totalLinesA, totalLinesB, threshold) ==
  [linesACount |-> totalLinesA,
   linesBCount |-> totalLinesB,
   similarLinesCount |-> 0,
   similarityPercentage |-> Zero,
   averageSimilarityScore |-> Zero,
   similarityThreshold |-> threshold,
   similarMatches |-> << >>,
   similarityDistribution |-> << >>,
   interpretation |-> VeryLow,
   error |-> ErrorText]

\* Statistics with the label taken from the rounded percentage
StatisticsLabelOfRounded(totalLinesA, totalLinesB, matches, threshold) ==
  LET similarityPercentage == SimilarityPercentage(matches, totalLinesA, totalLinesB)
      avgSimilarity == IF Len(matches) > 0 THEN AvgQuality(matches) ELSE Zero
  IN [linesACount |-> totalLinesA,
      linesBCount |-> totalLinesB,
      similarLinesCount |-> Len(matches),
      similarityPercentage |-> RoundTo(similarityPercentage, 100),
      averageSimilarityScore |-> RoundTo(avgSimilarity, 1000),
      similarityThreshold |-> threshold,
      similarMatches |-> matches,
      similarityDistribution |-> SimilarityDistribution(matches),
      interpretation |->
        interpretSimilarity(RoundTo(similarityPercentage, 100), avgSimilarity),
      error |-> Undefined]

\* Statistics reporting the error of the early return when nothing matched
StatisticsErrorWithoutMatches(totalLinesA, totalLinesB, matches, threshold) ==
  LET similarityPercentage == SimilarityPercentage(matches, totalLinesA, totalLinesB)
      avgSimilarity == IF Len(matches) > 0 THEN AvgQuality(matches) ELSE Zero
  IN [linesACount |-> totalLinesA,
      linesBCount |-> totalLinesB,
      similarLinesCount |-> Len(matches),
      similarityPercentage |-> RoundTo(similarityPercentage, 100),
      averageSimilarityScore |-> RoundTo(avgSimilarity, 1000),
      similarityThreshold |-> threshold,
      similarMatches |-> matches,
      similarityDistribution |-> SimilarityDistribution(matches),
      interpretation |-> interpretSimilarity(similarityPercentage, avgSimilarity),
      error |-> IF Len(matches) = 0 THEN ErrorText ELSE Undefined]

\* the result built from the committed matches
Statistics(totalLinesA, totalLinesB, matches, threshold) ==
  LET similarityPercentage == SimilarityPercentage(matches, totalLinesA, totalLinesB)
      avgSimilarity == IF Len(matches) > 0 THEN AvgQuality(matches) ELSE Zero
  IN [linesACount |-> totalLinesA,
      linesBCount |-> totalLinesB,
      similarLinesCount |-> Len(matches),
      similarityPercentage |-> RoundTo(similarityPercentage, 100),
      averageSimilarityScore |-> RoundTo(avgSimilarity, 1000),
      similarityThreshold |-> threshold,
      similarMatches |-> matches,
      similarityDistribution |-> SimilarityDistribution(matches),
      interpretation |-> interpretSimilarity(similarityPercentage, avgSimilarity),
      error |-> Undefined]

\* analyzeCodeSimilarity from the two preprocessed line lists on, the lines
\* given by their counts and their pairwise scores
AnalyzeByScore(nA, nB, score, threshold) ==
  IF nA = 0 \/ nB = 0 THEN ZeroResult(nA, nB, threshold)
  ELSE Statistics(nA, nB, FindSimilarLinesByScore(nA, nB, score, threshold), threshold)

\* findSimilarLines(linesA, linesB, threshold)
findSimilarLines(lA, lB, threshold) ==
  FindSimilarLinesByScore(Len(lA), Len(lB),
    [i \in 0..(Len(lA) - 1) |->
      [j \in 0..(Len(lB) - 1) |-> LineSimilarity[lA[i + 1]][lB[j + 1]]]],
    threshold)

\* what a call leaves behind when an exception escapes it
Thrown == [exception |-> ENOENT]

\* analyzeCodeSimilarity returning early only when both line lists are empty
analyzeCodeSimilarityBothEmpty(fs, fileA, fileB, similarityThreshold) ==
  LET readA == preprocessFile(fs, fileA)
      readB == preprocessFile(fs, fileB)
      lA == readA.lines
      lB == readB.lines
      names == [fileA |-> fileA, fileB |-> fileB]
  IN IF readA.threw \/ readB.threw THEN Thrown
     ELSE IF Len(lA) = 0 /\ Len(lB) = 0
       THEN names @@ ZeroResult(Len(lA), Len(lB), similarityThreshold)
     ELSE names @@ Statistics(Len(lA), Len(lB),
                     findSimilarLines(lA, lB, similarityThreshold),
                     similarityThreshold)

\* analyzeCodeSimilarity(fileA, fileB, similarityThreshold) on a file system fs
analyzeCodeSimilarity(fs, fileA, fileB, similarityThreshold) ==
  LET readA == preprocessFile(fs, fileA)
      readB == preprocessFile(fs, fileB)
      lA == readA.lines
      lB == readB.lines
      names == [fileA |-> fileA, fileB |-> fileB]
  IN IF readA.threw \/ readB.threw THEN Thrown
     ELSE IF Len(lA) = 0 \/ Len(lB) = 0
       THEN names @@ ZeroResult(Len(lA), Len(lB), similarityThreshold)
     ELSE names @@ Statistics(Len(lA), Len(lB),
                     findSimilarLines(lA, lB, similarityThreshold),
                     similarityThreshold)

\* ------------------------------------------------------------------------
\* The divisions a call executes, as the set of their denominators
\* ------------------------------------------------------------------------
\* (2 * lcs) / (lenA + lenB), after the returns for an empty sequence
SequenceDivisors(seqA, seqB) ==
  IF Len(seqA) = 0 /\ Len(seqB) = 0 THEN {}
  ELSE IF Len(seqA) = 0 \/ Len(seqB) = 0 THEN {}
  ELSE {Len(seqA) + Len(seqB)}

\* the divisions of calculateLineSimilarity
LineSimilarityDivisors(lineA, lineB) ==
  LET normA == normalizeLine(lineA)
      normB == normalizeLine(lineB)
      tokensA == tokenizeLine(lineA)
      tokensB == tokenizeLine(lineB)
      featuresA == extractStructuralFeatures(lineA)
      featuresB == extractStructuralFeatures(lineB)
      union == Range(tokensA) \cup Range(tokensB)
      featureUnion == featuresA \cup featuresB
  IN IF Trim(lineA) = << >> \/ Trim(lineB) = << >> THEN {}
     ELSE IF normA = normB THEN {}
     ELSE IF Len(normA) <= 2 \/ Len(normB) <= 2 THEN {}
     ELSE IF Trim(normA) \in genericPatterns \/ Trim(normB) \in genericPatterns THEN {}
     ELSE IF tokensA = << >> \/ tokensB = << >> THEN {}
     ELSE (IF Cardinality(union) > 0 THEN {Cardinality(union)} ELSE {})
          \cup SequenceDivisors(tokensA, tokensB)
          \cup (IF Cardinality(featureUnion) > 0
                  THEN {Cardinality(featureUnion)} ELSE {})
          \cup SequenceDivisors(normA, normB)
          \cup (IF featuresA # {} /\ featuresB # {}
                  THEN {Max2(Cardinality(featuresA), Cardinality(featuresB))}
                  ELSE {})

\* StatisticsDivisors without the tests similarMatches.length > 0
StatisticsDivisorsUnguarded(totalLinesA, totalLinesB, matches) ==
  {totalLinesA, totalLinesB, Len(matches), Max2(totalLinesA, totalLinesB)}
  \cup (IF PercentageBranch(matches, totalLinesA, totalLinesB)
              \in {"balanced", "conservative"} THEN {2} ELSE {})
  \cup {Len(matches)}
  \cup {100, 1000}

\* the divisions of the statistics of analyzeCodeSimilarity: the coverages,
\* the average quality, the size ratio, the average coverage, the average
\* similarity and the two roundings
StatisticsDivisors(totalLinesA, totalLinesB, matches) ==
  (IF Len(matches) > 0
     THEN {totalLinesA, totalLinesB, Len(matches), Max2(totalLinesA, totalLinesB)}
          \cup (IF PercentageBranch(matches, totalLinesA, totalLinesB)
                      \in {"balanced", "conservative"} THEN {2} ELSE {})
     ELSE {})
  \cup (IF Len(matches) > 0 THEN {Len(matches)} ELSE {})
  \cup {100, 1000}

\* the divisions of findSimilarLines: those of every pair of lines
findSimilarLinesDivisors(lA, lB) ==
  UNION {LineSimilarityDivisors(lA[i], lB[j]) :
           i \in 1..Len(lA), j \in 1..Len(lB)}

\* the divisions of analyzeCodeSimilarity(fileA, fileB, similarityThreshold)
analyzeCodeSimilarityDivisors(fs, fileA, fileB, similarityThreshold) ==
  LET lA == preprocessFile(fs, fileA).lines
      lB == preprocessFile(fs, fileB).lines
  IN IF Len(lA) = 0 \/ Len(lB) = 0 THEN {}
     ELSE findSimilarLinesDivisors(lA, lB)
          \cup StatisticsDivisors(Len(lA), Len(lB),
                  findSimilarLines(lA, lB, similarityThreshold))

\* ------------------------------------------------------------------------
\* The build in typescript/dist
\* ------------------------------------------------------------------------
\* the test preprocessFile applies to each line
IsMeaningfulDist(line) == Len(normalizeLine(line)) > 2

\* IsMeaningfulDist of each source line, evaluated once
KeptLineDist == [line \in SourceLines |-> IsMeaningfulDist(line)]

RECURSIVE MeaningfulLinesDist(_)
MeaningfulLinesDist(lines) ==
  IF lines = << >> THEN << >>
  ELSE (IF KeptLineDist[Head(lines)] THEN << TrimEnd(Head(lines)) >> ELSE << >>)
       \o MeaningfulLinesDist(Tail(lines))

preprocessFileDist(fs, filepath) ==
  LET read == readFileSync(fs, filepath)
  IN IF read.threw THEN [threw |-> FALSE, lines |-> << >>]
     ELSE [threw |-> FALSE, lines |-> MeaningfulLinesDist(SplitLines(read.content))]

\* the weighted combination
CombineComponentsDist(c) ==
  RAdd(RAdd(RMul(Rat(4, 10), c.sequenceSimilarity),
            RMul(Rat(3, 10), c.jaccard)),
       RMul(Rat(3, 10), c.structuralSimilarity))

calculateLineSimilarityDist(lineA, lineB) ==
  IF Trim(lineA) = << >> \/ Trim(lineB) = << >> THEN Zero
  ELSE IF normalizeLine(lineA) = normalizeLine(lineB) THEN One
  ELSE IF tokenizeLine(lineA) = << >> \/ tokenizeLine(lineB) = << >> THEN Zero
  ELSE CombineComponentsDist(Components(lineA, lineB))

\* calculateLineSimilarityDist of each pair of stored lines, evaluated once
LineSimilarityDist ==
  [lineA \in StoredLines |->
    [lineB \in StoredLines |-> calculateLineSimilarityDist(lineA, lineB)]]

\* the body of the inner loop: bestMatch after line j of B
BetterMatchDist(bestMatch, j, similarity, threshold) ==
  IF RGe(similarity, threshold) /\ RGt(similarity, bestMatch.score)
    THEN [index |-> j, score |-> similarity]
    ELSE bestMatch

\* the inner loop over B for a line of A, from line j of B on
RECURSIVE BestMatchDist(_, _, _, _, _)
BestMatchDist(lineA, lB, threshold, j, bestMatch) ==
  IF j >= Len(lB) THEN bestMatch
  ELSE BestMatchDist(lineA, lB, threshold, j + 1,
         BetterMatchDist(bestMatch, j, LineSimilarityDist[lineA][lB[j + 1]], threshold))

\* what the outer loop pushes for line i of A
PushedDist(i, bestMatch) ==
  IF bestMatch.index # -1
    THEN << [lineAIndex |-> i, lineBIndex |-> bestMatch.index,
             score |-> bestMatch.score] >>
    ELSE << >>

\* the outer loop over A, from line i on
RECURSIVE FindSimilarLinesDistFrom(_, _, _, _)
FindSimilarLinesDistFrom(lA, lB, threshold, i) ==
  IF i >= Len(lA) THEN << >>
  ELSE PushedDist(i, BestMatchDist(lA[i + 1], lB, threshold, 0,
                                   [index |-> -1, score |-> Zero]))
       \o FindSimilarLinesDistFrom(lA, lB, threshold, i + 1)

findSimilarLinesDist(lA, lB, threshold) == FindSimilarLinesDistFrom(lA, lB, threshold, 0)

\* the early return for an empty line list
ZeroResultDist(totalLinesA, totalLinesB, threshold) ==
  [linesACount |-> totalLinesA,
   linesBCount |-> totalLinesB,
   similarLinesCount |-> 0,
   similarityPercentage |-> Zero,
   averageSimilarityScore |-> Zero,
   similarityThreshold |-> threshold,
   similarMatches |-> << >>,
   similarityDistribution |-> << >>,
   error |-> ErrorText]

\* the result built from the matches
StatisticsDist(totalLinesA, totalLinesB, matches, threshold) ==
  LET avgSimilarity == IF Len(matches) > 0 THEN AvgQuality(matches) ELSE Zero
  IN [linesACount |-> totalLinesA,
      linesBCount |-> totalLinesB,
      similarLinesCount |-> Len(matches),
      similarityPercentage |-> RoundTo(Coverage(Len(matches), totalLinesA), 100),
      averageSimilarityScore |-> RoundTo(avgSimilarity, 1000),
      similarityThreshold |-> threshold,
      similarMatches |-> SubSeq(matches, 1, Min2(10, Len(matches))),
      similarityDistribution |-> SimilarityDistribution(matches),
      error |-> Undefined]

analyzeCodeSimilarityDist(fs, fileA, fileB, similarityThreshold) ==
  LET lA == preprocessFileDist(fs, fileA).lines
      lB == preprocessFileDist(fs, fileB).lines
      names == [fileA |-> fileA, fileB |-> fileB]
  IN IF Len(lA) = 0 \/ Len(lB) = 0
       THEN names @@ ZeroResultDist(Len(lA), Len(lB), similarityThreshold)
     ELSE names @@ StatisticsDist(Len(lA), Len(lB),
                     findSimilarLinesDist(lA, lB, similarityThreshold),
                     similarityThreshold)

\* ------------------------------------------------------------------------
\* analyzeCodeSimilarity(inputA, inputB, similarityThreshold, isFile) as the
\* declaration file and section 4.2 and 6 of the specification describe it
\* ------------------------------------------------------------------------
\* the rule of section 4.2: a line is rejected when its normalized form is
\* empty or of length at most 2, a trivial token, or a bare import keyword
RejectedBySpec(line) ==
  LET normalized == normalizeLine(line)
  IN \/ Len(normalized) <= 2
     \/ Trim(normalized) \in trivialPatterns
     \/ \E w \in ImportWords :
          /\ StartsWith(normalized, w)
          /\ \A k \in (Len(w) + 1)..Len(normalized) : IsSpace(normalized[k])

\* RejectedBySpec of each source line, evaluated once
RejectedLineBySpec == [line \in SourceLines |-> RejectedBySpec(line)]

RECURSIVE MeaningfulLinesBySpec(_)
MeaningfulLinesBySpec(lines) ==
  IF lines = << >> THEN << >>
  ELSE (IF RejectedLineBySpec[Head(lines)] THEN << >> ELSE << TrimEnd(Head(lines)) >>)
       \o MeaningfulLinesBySpec(Tail(lines))

preprocessCodeFragment(code) == MeaningfulLinesBySpec(SplitLines(code))

analyzeCodeSimilarityInput(fs, inputA, inputB, similarityThreshold, isFile) ==
  LET lA == IF isFile THEN preprocessFile(fs, inputA).lines
                      ELSE preprocessCodeFragment(inputA)
      lB == IF isFile THEN preprocessFile(fs, inputB).lines
                      ELSE preprocessCodeFragment(inputB)
      inputs == [inputA |-> inputA, inputB |-> inputB, isFile |-> isFile]
  IN IF Len(lA) = 0 \/ Len(lB) = 0
       THEN inputs @@ ZeroResult(Len(lA), Len(lB), similarityThreshold)
     ELSE inputs @@ Statistics(Len(lA), Len(lB),
                      findSimilarLines(lA, lB, similarityThreshold),
                      similarityThreshold)

\* ------------------------------------------------------------------------
\* The matcher, one loop iteration per step, run on one pair of line lists
\* at each threshold in turn
\* ------------------------------------------------------------------------
VARIABLES
  pc,                 \* "idle" | "call" | "select" | "returned"
  linesA,             \* number of meaningful lines of A
  linesB,             \* number of meaningful lines of B
  lineScore,          \* calculateLineSimilarity of each line pair
  ti,                 \* position in Thresholds of the current call
  potentialMatches,   \* the sorted candidates
  next,               \* position in potentialMatches of the next iteration
  selection,          \* similarMatches, usedAIndices, usedBIndices
  results,            \* the result of the last call
  resultsByThreshold, \* the results of the calls so far on this pair
  files,              \* the file system: the content of each path that exists
  call,               \* the arguments of the last call of the analyzer
  analyzer,           \* the analyzer's fields structuralKeywords and operators
  calls               \* the calls made on the analyzer so far, oldest first

vars == <<pc, linesA, linesB, lineScore, ti, potentialMatches, next,
          selection, results, resultsByThreshold, files, call, analyzer, calls>>

matcherVars == <<linesA, linesB, lineScore, ti, potentialMatches, next,
                 selection, resultsByThreshold>>
textVars == <<files, call>>
objectVars == <<analyzer, calls>>

\* the analyzer as its constructor leaves it
Constructed == [structuralKeywords |-> structuralKeywords, operators |-> operators]

\* AnalyzerAfterCall for a call that adds the words it meets to the keywords
AnalyzerAfterCallLearning(a) ==
  [a EXCEPT !.structuralKeywords = @ \cup {<<"a", "b">>}]

\* the analyzer's fields after a call of analyzeCodeSimilarity: the call and
\* the methods it calls read the two Sets (has, for...of) and assign nothing
AnalyzerAfterCall(a) == a

NoResults == [error |-> "no call"]
NoCall == [build |-> "none"]

Dims == {d \in (0..MaxCells) \X (0..MaxCells) : d[1] * d[2] <= MaxCells}

Init ==
  /\ pc = "idle"
  /\ linesA = 0
  /\ linesB = 0
  /\ lineScore = << >>
  /\ ti = 1
  /\ potentialMatches = << >>
  /\ next = 1
  /\ selection = SelectInit
  /\ results = NoResults
  /\ resultsByThreshold = << >>
  /\ files = << >>
  /\ call = NoCall
  /\ analyzer = Constructed
  /\ calls = << >>

\* the harness takes a pair of inputs; preprocessing leaves nA and nB lines
Preprocess ==
  /\ UNCHANGED textVars
  /\ UNCHANGED objectVars
  /\ pc = "idle"
  /\ \E d \in Dims :
       /\ linesA' = d[1]
       /\ linesB' = d[2]
       /\ lineScore' \in [0..(d[1] - 1) -> [0..(d[2] - 1) -> ScoreValues]]
  /\ pc' = "call"
  /\ ti' = 1
  /\ potentialMatches' = << >>
  /\ next' = 1
  /\ selection' = SelectInit
  /\ results' = NoResults
  /\ resultsByThreshold' = << >>

\* analyzeCodeSimilarity returns early when a line list is empty
ReturnEmpty ==
  /\ UNCHANGED textVars
  /\ UNCHANGED objectVars
  /\ pc = "call"
  /\ linesA = 0 \/ linesB = 0
  /\ results' = ZeroResult(linesA, linesB, Thresholds[ti])
  /\ pc' = "returned"
  /\ UNCHANGED <<linesA, linesB, lineScore, ti, potentialMatches, next,
                 selection, resultsByThreshold>>

\* findSimilarLines up to the sort
BuildCandidates ==
  /\ UNCHANGED textVars
  /\ UNCHANGED objectVars
  /\ pc = "call"
  /\ linesA > 0 /\ linesB > 0
  /\ potentialMatches' = SortedCandidates(linesA, linesB, lineScore, Thresholds[ti])
  /\ next' = 1
  /\ selection' = SelectInit
  /\ pc' = "select"
  /\ UNCHANGED <<linesA, linesB, lineScore, ti, results, resultsByThreshold>>

\* one iteration of the selection loop
Select ==
  /\ UNCHANGED textVars
  /\ UNCHANGED objectVars
  /\ pc = "select"
  /\ next <= Len(potentialMatches)
  /\ selection' = SelectStep(selection, potentialMatches[next])
  /\ next' = next + 1
  /\ UNCHANGED <<pc, linesA, linesB, lineScore, ti, potentialMatches,
                 results, resultsByThreshold>>

\* findSimilarLines returns and analyzeCodeSimilarity builds the result
ReturnResults ==
  /\ UNCHANGED textVars
  /\ UNCHANGED objectVars
  /\ pc = "select"
  /\ next > Len(potentialMatches)
  /\ results' = Statistics(linesA, linesB, selection.matches, Thresholds[ti])
  /\ pc' = "returned"
  /\ UNCHANGED <<linesA, linesB, lineScore, ti, potentialMatches, next,
                 selection, resultsByThreshold>>

\* the harness records the result and calls again at the next threshold
NextThreshold ==
  /\ UNCHANGED textVars
  /\ UNCHANGED objectVars
  /\ pc = "returned"
  /\ ti < Len(Thresholds)
  /\ resultsByThreshold' = Append(resultsByThreshold, results)
  /\ ti' = ti + 1
  /\ pc' = "call"
  /\ UNCHANGED <<linesA, linesB, lineScore, potentialMatches, next,
                 selection, results>>

\* the harness is done with this pair
Finish ==
  /\ UNCHANGED textVars
  /\ UNCHANGED objectVars
  /\ pc = "returned"
  /\ ti = Len(Thresholds)
  /\ pc' = "idle"
  /\ linesA' = 0
  /\ linesB' = 0
  /\ lineScore' = << >>
  /\ ti' = 1
  /\ potentialMatches' = << >>
  /\ next' = 1
  /\ selection' = SelectInit
  /\ results' = NoResults
  /\ resultsByThreshold' = << >>

Next ==
  \/ Preprocess
  \/ ReturnEmpty
  \/ BuildCandidates
  \/ Select
  \/ ReturnResults
  \/ NextThreshold
  \/ Finish

Spec == Init /\ [][Next]_vars

\* ------------------------------------------------------------------------
\* The analyzer on files and on code fragments: a harness writes files, calls
\* the analyzer once and removes the files
\* ------------------------------------------------------------------------
\* at most MaxLines lines in a file
MaxLines == 2

RECURSIVE JoinLines(_)
JoinLines(lines) ==
  IF lines = << >> THEN << >>
  ELSE IF Len(lines) = 1 THEN lines[1]
  ELSE lines[1] \o <<"\n">> \o JoinLines(Tail(lines))

Contents == {JoinLines(ls) : ls \in UNION {[1..k -> FileLines] : k \in 0..MaxLines}}

\* a code fragment of at most one line
FragmentTexts == {<< >>} \cup FileLines

\* the two paths the harness uses; the first is also a line of code
FileA == <<"a", "b", "=", "1">>
FileB == <<"b", ".", "t", "s">>
Paths == {FileA, FileB}

\* the thresholds of test_ts_simple, of the default and of the identical-code test
FileThresholds == {Rat(1, 2), Rat(7, 10), Rat(9, 10)}

InitText ==
  /\ pc = "idle"
  /\ linesA = 0
  /\ linesB = 0
  /\ lineScore = << >>
  /\ ti = 1
  /\ potentialMatches = << >>
  /\ next = 1
  /\ selection = SelectInit
  /\ results = NoResults
  /\ resultsByThreshold = << >>
  /\ files = << >>
  /\ call = NoCall
  /\ analyzer = Constructed
  /\ calls = << >>

\* fs.writeFileSync of a file that does not exist yet
WriteFile ==
  /\ pc = "idle"
  /\ \E path \in Paths \ DOMAIN files :
       \E content \in Contents :
         files' = [q \in DOMAIN files \cup {path} |->
                     IF q = path THEN content ELSE files[q]]
  /\ UNCHANGED <<pc, results, call>>
  /\ UNCHANGED matcherVars
  /\ UNCHANGED objectVars

\* analyzer.analyzeCodeSimilarity(fileA, fileB, threshold)
AnalyzeFiles ==
  /\ pc = "idle"
  /\ \E threshold \in FileThresholds :
       /\ results' = analyzeCodeSimilarity(files, FileA, FileB, threshold)
       /\ call' = [build |-> "current", inputA |-> FileA, inputB |-> FileB,
                   threshold |-> threshold, isFile |-> TRUE]
  /\ pc' = "returned"
  /\ analyzer' = AnalyzerAfterCall(analyzer)
  /\ UNCHANGED <<files, calls>>
  /\ UNCHANGED matcherVars

\* the same call on the build in typescript/dist
AnalyzeFilesDist ==
  /\ pc = "idle"
  /\ \E threshold \in FileThresholds :
       /\ results' = analyzeCodeSimilarityDist(files, FileA, FileB, threshold)
       /\ call' = [build |-> "dist", inputA |-> FileA, inputB |-> FileB,
                   threshold |-> threshold, isFile |-> TRUE]
  /\ pc' = "returned"
  /\ UNCHANGED files
  /\ UNCHANGED matcherVars
  /\ UNCHANGED objectVars

\* analyzer.analyzeCodeSimilarity(codeA, codeB, threshold, false); the tests
\* that do this write no second file
AnalyzeFragments ==
  /\ pc = "idle"
  /\ FileB \notin DOMAIN files
  /\ \E codeA \in FragmentTexts, codeB \in FragmentTexts, threshold \in FileThresholds :
       /\ results' = analyzeCodeSimilarityInput(files, codeA, codeB, threshold, FALSE)
       /\ call' = [build |-> "input", inputA |-> codeA, inputB |-> codeB,
                   threshold |-> threshold, isFile |-> FALSE]
  /\ pc' = "returned"
  /\ UNCHANGED files
  /\ UNCHANGED matcherVars
  /\ UNCHANGED objectVars

\* fs.unlinkSync of the files; the harness drops the result
Cleanup ==
  /\ pc = "returned"
  /\ pc' = "idle"
  /\ files' = << >>
  /\ results' = NoResults
  /\ call' = NoCall
  /\ UNCHANGED matcherVars
  /\ UNCHANGED objectVars

NextText ==
  \/ WriteFile
  \/ AnalyzeFiles
  \/ AnalyzeFilesDist
  \/ AnalyzeFragments
  \/ Cleanup

SpecText == InitText /\ [][NextText]_vars

\* ------------------------------------------------------------------------
\* The functions on single lines and on one text: a harness scores a pair of
\* lines, or writes a text to a file and preprocesses it
\* ------------------------------------------------------------------------
\* at most MaxTextLines lines in a text
MaxTextLines == 3

Texts == {JoinLines(ls) : ls \in UNION {[1..k -> LinePool] : k \in 0..MaxTextLines}}

InitLine ==
  /\ pc = "idle"
  /\ linesA = 0
  /\ linesB = 0
  /\ lineScore = << >>
  /\ ti = 1
  /\ potentialMatches = << >>
  /\ next = 1
  /\ selection = SelectInit
  /\ results = NoResults
  /\ resultsByThreshold = << >>
  /\ files = << >>
  /\ call = NoCall
  /\ analyzer = Constructed
  /\ calls = << >>

\* analyzer.calculateLineSimilarity(lineA, lineB)
ScoreLines ==
  /\ pc = "idle"
  /\ files = << >>
  /\ \E lineA \in LinePool, lineB \in LinePool :
       /\ results' = [similarity |-> calculateLineSimilarity(lineA, lineB)]
       /\ call' = [build |-> "score", inputA |-> lineA, inputB |-> lineB]
  /\ pc' = "returned"
  /\ UNCHANGED files
  /\ UNCHANGED matcherVars
  /\ UNCHANGED objectVars

\* at most MaxSeqLen elements in a sequence the two similarity functions are
\* called on directly
MaxSeqLen == 4

\* token lists of up to MaxSeqLen tokens out of three
TokenLists ==
  UNION {[1..k -> {<<"a", "b">>, <<"=">>, <<"1">>}] : k \in 0..MaxSeqLen}

\* strings of up to MaxSeqLen characters out of three
Strings == UNION {[1..k -> {"a", "b", "="}] : k \in 0..MaxSeqLen}

\* analyzer.calculateSequenceSimilarity(seqA, seqB)
ScoreSequences ==
  /\ pc = "idle"
  /\ files = << >>
  /\ \E seqA \in TokenLists, seqB \in TokenLists :
       /\ results' = [similarity |-> calculateSequenceSimilarity(seqA, seqB)]
       /\ call' = [build |-> "sequence", inputA |-> seqA, inputB |-> seqB]
  /\ pc' = "returned"
  /\ UNCHANGED files
  /\ UNCHANGED matcherVars
  /\ UNCHANGED objectVars

\* analyzer.calculateStringSimilarity(strA, strB)
ScoreStrings ==
  /\ pc = "idle"
  /\ files = << >>
  /\ \E strA \in Strings, strB \in Strings :
       /\ results' = [similarity |-> calculateStringSimilarity(strA, strB)]
       /\ call' = [build |-> "string", inputA |-> strA, inputB |-> strB]
  /\ pc' = "returned"
  /\ UNCHANGED files
  /\ UNCHANGED matcherVars
  /\ UNCHANGED objectVars

\* fs.writeFileSync(FileA, text)
WriteText ==
  /\ pc = "idle"
  /\ files = << >>
  /\ \E text \in Texts : files' = [q \in {FileA} |-> text]
  /\ UNCHANGED <<pc, results, call>>
  /\ UNCHANGED matcherVars
  /\ UNCHANGED objectVars

\* analyzer.preprocessFile(FileA)
PreprocessText ==
  /\ pc = "idle"
  /\ files # << >>
  /\ results' = preprocessFile(files, FileA)
  /\ call' = [build |-> "preprocess", inputA |-> FileA]
  /\ pc' = "returned"
  /\ UNCHANGED files
  /\ UNCHANGED matcherVars
  /\ UNCHANGED objectVars

NextLine ==
  \/ ScoreLines
  \/ ScoreSequences
  \/ ScoreStrings
  \/ WriteText
  \/ PreprocessText
  \/ Cleanup

SpecLine == InitLine /\ [][NextLine]_vars

\* ------------------------------------------------------------------------
\* The statistics of analyzeCodeSimilarity on the match lists findSimilarLines
\* can return for line lists of up to MaxTotal lines
\* ------------------------------------------------------------------------
\* at most MaxTotal meaningful lines in a file
MaxTotal == 4

\* the threshold of the call and the scores of its matches, none below it
StatisticsThreshold == Rat(1, 2)
MatchScores == {sc \in ScoreValues : RGe(sc, StatisticsThreshold)}

\* the one-to-one match lists of n matches in non-increasing score order
MatchLists(n) ==
  {[k \in 1..n |-> [lineAIndex |-> k - 1, lineBIndex |-> k - 1, score |-> sc[k]]] :
     sc \in {t \in [1..n -> MatchScores] :
               \A k \in 1..(n - 1) : RGe(t[k], t[k + 1])}}

InitStats ==
  /\ pc = "idle"
  /\ linesA = 0
  /\ linesB = 0
  /\ lineScore = << >>
  /\ ti = 1
  /\ potentialMatches = << >>
  /\ next = 1
  /\ selection = SelectInit
  /\ results = NoResults
  /\ resultsByThreshold = << >>
  /\ files = << >>
  /\ call = NoCall
  /\ analyzer = Constructed
  /\ calls = << >>

\* analyzeCodeSimilarity after findSimilarLines has returned
Aggregate ==
  /\ pc = "idle"
  /\ \E totalLinesA \in 1..MaxTotal, totalLinesB \in 1..MaxTotal :
       \E n \in 0..Min2(totalLinesA, totalLinesB) :
         \E matches \in MatchLists(n) :
           /\ results' = Statistics(totalLinesA, totalLinesB, matches,
                                    StatisticsThreshold)
           /\ call' = [build |-> "statistics", totalLinesA |-> totalLinesA,
                       totalLinesB |-> totalLinesB, matches |-> matches]
  /\ pc' = "returned"
  /\ UNCHANGED files
  /\ UNCHANGED matcherVars
  /\ UNCHANGED objectVars

NextStats ==
  \/ Aggregate
  \/ Cleanup

SpecStats == InitStats /\ [][NextStats]_vars

\* ------------------------------------------------------------------------
\* One analyzer called several times: the harness writes files, calls the
\* analyzer, keeps the result, removes the files and starts again
\* ------------------------------------------------------------------------
\* at most MaxCalls calls are kept
MaxCalls == 2

\* the texts the files of these calls hold: one line, two lines, a comment
SampleContents ==
  {<<"a", "b", "=", "1">>,
   JoinLines(<< <<"a", "b", "=", "1">>, <<"a", "b", "=", "2">> >>),
   <<"/", "/", "y", "z">>}

InitCalls ==
  /\ pc = "idle"
  /\ linesA = 0
  /\ linesB = 0
  /\ lineScore = << >>
  /\ ti = 1
  /\ potentialMatches = << >>
  /\ next = 1
  /\ selection = SelectInit
  /\ results = NoResults
  /\ resultsByThreshold = << >>
  /\ files = << >>
  /\ call = NoCall
  /\ analyzer = Constructed
  /\ calls = << >>

\* fs.writeFileSync of a file that does not exist yet
WriteSample ==
  /\ pc = "idle"
  /\ \E path \in Paths \ DOMAIN files :
       \E content \in SampleContents :
         files' = [q \in DOMAIN files \cup {path} |->
                     IF q = path THEN content ELSE files[q]]
  /\ UNCHANGED <<pc, results, call>>
  /\ UNCHANGED matcherVars
  /\ UNCHANGED objectVars

\* analyzer.analyzeCodeSimilarity(fileA, fileB, threshold), the harness
\* keeping what the files held, the threshold and the result
AnalyzeRecorded ==
  /\ pc = "idle"
  /\ Len(calls) < MaxCalls
  /\ \E threshold \in FileThresholds :
       /\ results' = analyzeCodeSimilarity(files, FileA, FileB, threshold)
       /\ call' = [build |-> "current", inputA |-> FileA, inputB |-> FileB,
                   threshold |-> threshold, isFile |-> TRUE]
       /\ calls' = Append(calls, [files |-> files, threshold |-> threshold,
                                  results |-> results'])
  /\ pc' = "returned"
  /\ analyzer' = AnalyzerAfterCall(analyzer)
  /\ UNCHANGED files
  /\ UNCHANGED matcherVars

NextCalls ==
  \/ WriteSample
  \/ AnalyzeRecorded
  \/ Cleanup

SpecCalls == InitCalls /\ [][NextCalls]_vars

\* ------------------------------------------------------------------------
\* Properties of the matcher and of the statistics
\* ------------------------------------------------------------------------
OneToOne(matches) ==
  \A p, q \in 1..Len(matches) :
    p # q => /\ matches[p].lineAIndex # matches[q].lineAIndex
             /\ matches[p].lineBIndex # matches[q].lineBIndex

Returned == pc = "returned"

\* C1: the match list is one-to-one after every iteration of the selection
\* loop and in every result: no lineAIndex occurs in two matches and no
\* lineBIndex occurs in two matches.
C1_OneToOne ==
  /\ OneToOne(selection.matches)
  /\ Returned => OneToOne(results.similarMatches)

\* a result with two matches, reached after a conflicting candidate was skipped
C1_Witness ==
  /\ Returned
  /\ linesA = 2 /\ linesB = 2
  /\ results.similarLinesCount = 2
  /\ Len(potentialMatches) = 4

\* C2: with both line lists non-empty, the similarityPercentage of a result,
\* before and after rounding, lies between 0 and 100 inclusive, whichever arm
\* of the formula computed it.
C2_PercentageRange ==
  (Returned /\ linesA > 0 /\ linesB > 0) =>
    LET raw == SimilarityPercentage(results.similarMatches, linesA, linesB)
    IN /\ RLe(Zero, raw) /\ RLe(raw, Int2Rat(100))
       /\ RLe(Zero, results.similarityPercentage)
       /\ RLe(results.similarityPercentage, Int2Rat(100))

\* the boosted arm with a product above 100, reported as exactly 100
C2_Witness ==
  /\ Returned
  /\ linesA > 0 /\ linesB > 0
  /\ PercentageBranch(results.similarMatches, linesA, linesB) = "boosted"
  /\ RGt(SimilarityPercentageUncapped(results.similarMatches, linesA, linesB),
         Int2Rat(100))
  /\ results.similarityPercentage = Int2Rat(100)

\* C3: every result has 0 <= similarLinesCount <= min(linesACount, linesBCount).
C3_CountRange ==
  Returned =>
    /\ results.linesACount = linesA
    /\ results.linesBCount = linesB
    /\ 0 <= results.similarLinesCount
    /\ results.similarLinesCount <= Min2(results.linesACount, results.linesBCount)

\* one line of A against three eligible lines of B: one match, two skipped
C3_Witness ==
  /\ Returned
  /\ results.linesACount = 1 /\ results.linesBCount = 3
  /\ Len(potentialMatches) = 3
  /\ results.similarLinesCount = 1

\* the results of the calls made so far on the current pair, oldest first
CallsSoFar == IF Returned THEN Append(resultsByThreshold, results)
                          ELSE resultsByThreshold

\* C6: on one pair of line lists, a call at a higher threshold never commits
\* more matches than a call at a lower threshold.
C6_ThresholdMonotone ==
  \A p, q \in 1..Len(CallsSoFar) :
    (p < q /\ RLe(CallsSoFar[p].similarityThreshold, CallsSoFar[q].similarityThreshold))
      => Len(CallsSoFar[q].similarMatches) <= Len(CallsSoFar[p].similarMatches)

\* all thresholds tried on one pair, the count falling from 2 to 1 to 0
C6_Witness ==
  /\ Len(CallsSoFar) = Len(Thresholds)
  /\ Len(CallsSoFar[1].similarMatches) = 2
  /\ \E p \in 1..Len(CallsSoFar) : Len(CallsSoFar[p].similarMatches) = 1
  /\ Len(CallsSoFar[Len(Thresholds)].similarMatches) = 0

\* x comes before y in the enumeration of the cells: smaller i, then smaller j
EnumeratedBefore(xi, xj, yi, yj) == xi < yi \/ (xi = yi /\ xj < yj)

\* C13: the candidates are walked, and the matches returned, in non-increasing
\* score order, and of two candidates of equal score the one with the smaller
\* lineAIndex, then the smaller lineBIndex, comes first.
C13_ScoreOrder ==
  /\ \A p, q \in 1..Len(potentialMatches) :
       p < q =>
         /\ RGe(potentialMatches[p].score, potentialMatches[q].score)
         /\ potentialMatches[p].score = potentialMatches[q].score =>
              EnumeratedBefore(potentialMatches[p].i, potentialMatches[p].j,
                               potentialMatches[q].i, potentialMatches[q].j)
  /\ \A p, q \in 1..Len(selection.matches) :
       p < q =>
         /\ RGe(selection.matches[p].score, selection.matches[q].score)
         /\ selection.matches[p].score = selection.matches[q].score =>
              EnumeratedBefore(selection.matches[p].lineAIndex,
                               selection.matches[p].lineBIndex,
                               selection.matches[q].lineAIndex,
                               selection.matches[q].lineBIndex)
  /\ (Returned /\ linesA > 0 /\ linesB > 0) =>
       results.similarMatches = selection.matches

\* four candidates of one score on two lines each: (0,0) is committed first,
\* (0,1) and (1,0) are skipped, (1,1) is committed
C13_Witness ==
  /\ Returned
  /\ linesA = 2 /\ linesB = 2
  /\ Len(potentialMatches) = 4
  /\ \A p \in 1..4 : potentialMatches[p].score = Rat(4, 5)
  /\ results.similarMatches =
       << [lineAIndex |-> 0, lineBIndex |-> 0, score |-> Rat(4, 5)],
          [lineAIndex |-> 1, lineBIndex |-> 1, score |-> Rat(4, 5)] >>

\* candidate k of the sorted list is among the matches
Committed(k, matches) ==
  \E m \in 1..Len(matches) :
    /\ matches[m].lineAIndex = potentialMatches[k].i
    /\ matches[m].lineBIndex = potentialMatches[k].j

\* the pairs of lines whose score is at or above the threshold of the call
EligiblePairs ==
  {c \in (0..(linesA - 1)) \X (0..(linesB - 1)) :
     RGe(lineScore[c[1]][c[2]], Thresholds[ti])}

UsedA(matches) == {matches[m].lineAIndex : m \in 1..Len(matches)}
UsedB(matches) == {matches[m].lineBIndex : m \in 1..Len(matches)}

\* C14: a candidate is committed exactly when, at its turn in the sorted
\* order, no candidate committed before it has its A index or its B index;
\* when findSimilarLines has returned no pair with a score at or above the
\* threshold has both its lines unmatched, and the first match has the highest
\* score of all such pairs.
C14_GreedyMaximal ==
  /\ pc \in {"select", "returned"} =>
       \A k \in 1..Min2(next - 1, Len(potentialMatches)) :
         Committed(k, selection.matches) <=>
           ~\E h \in 1..(k - 1) :
              /\ Committed(h, selection.matches)
              /\ \/ potentialMatches[h].i = potentialMatches[k].i
                 \/ potentialMatches[h].j = potentialMatches[k].j
  /\ (Returned /\ linesA > 0 /\ linesB > 0) =>
       /\ \A c \in EligiblePairs :
            \/ c[1] \in UsedA(results.similarMatches)
            \/ c[2] \in UsedB(results.similarMatches)
       /\ EligiblePairs # {} =>
            /\ Len(results.similarMatches) >= 1
            /\ \A c \in EligiblePairs :
                 RGe(results.similarMatches[1].score, lineScore[c[1]][c[2]])
            /\ <<results.similarMatches[1].lineAIndex,
                 results.similarMatches[1].lineBIndex>> \in EligiblePairs

\* four eligible pairs on two lines each, the best of them (1,0): it is
\* committed first, then (0,1), and the two others are skipped
C14_Witness ==
  /\ Returned
  /\ linesA = 2 /\ linesB = 2
  /\ Cardinality(EligiblePairs) = 4
  /\ results.similarLinesCount = 2
  /\ results.similarMatches[1].lineAIndex = 1
  /\ results.similarMatches[1].lineBIndex = 0
  /\ results.similarMatches[1].score = One
  /\ results.similarMatches[2].lineAIndex = 0
  /\ results.similarMatches[2].lineBIndex = 1
  /\ RLt(results.similarMatches[2].score, lineScore[0][0])

\* a match of the current call: its score is the similarity of its two lines
\* and lies between the threshold and 1
WithinThreshold(match) ==
  /\ match.lineAIndex \in 0..(linesA - 1)
  /\ match.lineBIndex \in 0..(linesB - 1)
  /\ match.score = lineScore[match.lineAIndex][match.lineBIndex]
  /\ RLe(Thresholds[ti], match.score)
  /\ RLe(match.score, One)

\* C15: at a threshold between 0 and 1 every committed match carries the
\* similarity of its two lines, which is at least the threshold and at most
\* 1; a pair whose similarity is below the threshold is never committed.
C15_ScoreAboveThreshold ==
  /\ pc \in {"select", "returned"} =>
       \A m \in 1..Len(selection.matches) : WithinThreshold(selection.matches[m])
  /\ (Returned /\ linesA > 0 /\ linesB > 0) =>
       \A m \in 1..Len(results.similarMatches) :
         WithinThreshold(results.similarMatches[m])

\* at threshold 0.7 one pair scoring exactly 0.7 is committed and a pair
\* scoring 0.65 is left out with both its lines free
C15_Witness ==
  /\ Returned
  /\ linesA = 2 /\ linesB = 2
  /\ Thresholds[ti] = Rat(7, 10)
  /\ results.similarLinesCount = 1
  /\ results.similarMatches[1].score = Rat(7, 10)
  /\ \E c \in (0..1) \X (0..1) :
       /\ lineScore[c[1]][c[2]] = Rat(13, 20)
       /\ c[1] \notin UsedA(results.similarMatches)
       /\ c[2] \notin UsedB(results.similarMatches)

\* s is the sequence of the first Len(s) elements of t
IsPrefix(s, t) == Len(s) <= Len(t) /\ s = SubSeq(t, 1, Len(s))

\* C16: on one pair of line lists, the match list of a call at a higher
\* threshold is a prefix of the match list of a call at a lower threshold:
\* the same matches in the same order, with only matches of the tail missing.
C16_ThresholdPrefix ==
  \A p, q \in 1..Len(CallsSoFar) :
    (p < q /\ RLe(CallsSoFar[p].similarityThreshold, CallsSoFar[q].similarityThreshold))
      => IsPrefix(CallsSoFar[q].similarMatches, CallsSoFar[p].similarMatches)

\* two matches at threshold 0, the second of them gone at a higher threshold
\* at which the first is still committed; line 0 of A keeps its partner line 1
\* of B although line 0 of B comes first in the enumeration
C16_Witness ==
  /\ Len(CallsSoFar) >= 4
  /\ Len(CallsSoFar[1].similarMatches) = 2
  /\ Len(CallsSoFar[4].similarMatches) = 1
  /\ CallsSoFar[4].similarMatches[1] = CallsSoFar[1].similarMatches[1]
  /\ CallsSoFar[1].similarMatches[1].lineAIndex = 0
  /\ CallsSoFar[1].similarMatches[1].lineBIndex = 1
  /\ RGt(CallsSoFar[1].similarMatches[2].score, Zero)

\* ------------------------------------------------------------------------
\* Properties of whole calls
\* ------------------------------------------------------------------------
\* a call of the given build has returned
CallReturned(build) == Returned /\ call.build = build

BothExist == FileA \in DOMAIN files /\ FileB \in DOMAIN files

\* the meaningful lines of a text, by the rule of preprocessFile
LinesOf(content) == MeaningfulLines(SplitLines(content))

\* every line 0..n-1 of A and of B is in exactly one match
PerfectMatching(matches, n) ==
  /\ Len(matches) = n
  /\ \A i \in 0..(n - 1) :
       /\ Cardinality({k \in 1..Len(matches) : matches[k].lineAIndex = i}) = 1
       /\ Cardinality({k \in 1..Len(matches) : matches[k].lineBIndex = i}) = 1

\* a text with at least one meaningful line was analysed against itself
SelfCall ==
  /\ CallReturned("current")
  /\ BothExist
  /\ files[FileA] = files[FileB]
  /\ LinesOf(files[FileA]) # << >>

\* C4: analysing a text with at least one meaningful line against itself at a
\* threshold of at most 0.9 puts every meaningful line in exactly one match,
\* so similarLinesCount = linesACount = linesBCount, and reports a
\* similarityPercentage of at least 90.
C4_Reflexivity ==
  (SelfCall /\ RLe(call.threshold, Rat(9, 10))) =>
    /\ results.similarLinesCount = results.linesACount
    /\ results.linesACount = results.linesBCount
    /\ results.linesACount = Len(LinesOf(files[FileA]))
    /\ PerfectMatching(results.similarMatches, results.linesACount)
    /\ RGe(results.similarityPercentage, Int2Rat(90))

\* the same meaningful line twice, against itself, at threshold 0.9
C4_Witness ==
  /\ SelfCall
  /\ call.threshold = Rat(9, 10)
  /\ files[FileA] = JoinLines(<< <<"a", "b", "=", "1">>, <<"a", "b", "=", "1">> >>)
  /\ results.similarLinesCount = 2
  /\ results.similarityPercentage = Int2Rat(100)

\* the file is missing or its text has no meaningful line
NoMeaningfulLines(path) ==
  path \notin DOMAIN files \/ LinesOf(files[path]) = << >>

\* C5: when either input has no meaningful line (empty text, comments only,
\* or a file that cannot be read) the call returns, at every threshold, the
\* zero result: percentage 0, count 0, average 0, no matches, an empty
\* histogram, the lowest interpretation and the error set.
C5_ZeroResult ==
  (CallReturned("current") /\ (NoMeaningfulLines(FileA) \/ NoMeaningfulLines(FileB))) =>
    /\ results.similarityPercentage = Zero
    /\ results.similarLinesCount = 0
    /\ results.averageSimilarityScore = Zero
    /\ results.similarMatches = << >>
    /\ DOMAIN results.similarityDistribution = {}
    /\ results.interpretation = VeryLow
    /\ results.error = ErrorText
    /\ results.similarityThreshold = call.threshold

\* a file of comments only against a file with a meaningful line
C5_Witness ==
  /\ CallReturned("current")
  /\ BothExist
  /\ files[FileA] = <<"/", "/", "y", "z">>
  /\ files[FileB] = <<"a", "b", "=", "1">>
  /\ results.linesACount = 0
  /\ results.linesBCount = 1
  /\ results.error = ErrorText

\* the line up to its first //, without the white space before it
RECURSIVE BeforeSlashSlash(_)
BeforeSlashSlash(line) ==
  IF line = << >> \/ StartsWith(line, <<"/", "/">>) THEN << >>
  ELSE << Head(line) >> \o BeforeSlashSlash(Tail(line))

\* the two texts have the same lines up to what follows // on a line
DifferInLineComments(a, b) ==
  LET la == SplitLines(a)
      lb == SplitLines(b)
  IN /\ Len(la) = Len(lb)
     /\ \A k \in 1..Len(la) :
          TrimEnd(BeforeSlashSlash(la[k])) = TrimEnd(BeforeSlashSlash(lb[k]))

RECURSIVE BlankComments(_, _)
BlankComments(s, mode) ==
  IF s = << >> THEN << >>
  ELSE IF mode = "code"
    THEN IF StartsWith(s, <<"/", "/">>)
           THEN <<"/", "/">> \o BlankComments(SubSeq(s, 3, Len(s)), "line")
         ELSE IF StartsWith(s, <<"/", "*">>)
           THEN <<"/", "*">> \o BlankComments(SubSeq(s, 3, Len(s)), "block")
         ELSE << Head(s) >> \o BlankComments(Tail(s), "code")
  ELSE IF mode = "line"
    THEN IF Head(s) = "\n"
           THEN <<"\n">> \o BlankComments(Tail(s), "code")
           ELSE BlankComments(Tail(s), "line")
  ELSE IF StartsWith(s, <<"*", "/">>)
         THEN <<"*", "/">> \o BlankComments(SubSeq(s, 3, Len(s)), "code")
       ELSE IF Head(s) = "\n"
         THEN <<"\n">> \o BlankComments(Tail(s), "block")
       ELSE BlankComments(Tail(s), "block")

ResultFields ==
  {"fileA", "fileB", "linesACount", "linesBCount", "similarLinesCount",
   "similarityPercentage", "averageSimilarityScore", "similarityThreshold",
   "similarMatches", "similarityDistribution", "interpretation", "error"}

C9_MissingFile ==
  (CallReturned("current") /\ ~BothExist) =>
    /\ results # Thrown
    /\ DOMAIN results = ResultFields
    /\ results.error = ErrorText
    /\ results.similarLinesCount = 0
    /\ FileA \notin DOMAIN files => results.linesACount = 0
    /\ FileB \notin DOMAIN files => results.linesBCount = 0
    /\ FileA \in DOMAIN files => results.linesACount = Len(LinesOf(files[FileA]))
    /\ FileB \in DOMAIN files => results.linesBCount = Len(LinesOf(files[FileB]))

\* a file of two meaningful lines against a missing file
C9_Witness ==
  /\ CallReturned("current")
  /\ FileA \in DOMAIN files
  /\ FileB \notin DOMAIN files
  /\ results # Thrown
  /\ results.linesACount = 2
  /\ results.linesBCount = 0
  /\ results.error = ErrorText

\* C10: in the build in typescript/dist no two matches of a result name the
\* same line of B.
C10_DistOneToOne ==
  CallReturned("dist") =>
    \A k, l \in 1..Len(results.similarMatches) :
      results.similarMatches[k].lineBIndex = results.similarMatches[l].lineBIndex
        => k = l

\* the build in typescript/dist has matched two lines of A to one line of B
C10_Witness ==
  /\ CallReturned("dist")
  /\ Len(results.similarMatches) = 2
  /\ results.similarMatches[1].lineBIndex = results.similarMatches[2].lineBIndex
  /\ results.similarMatches[1].lineAIndex # results.similarMatches[2].lineAIndex
  /\ results.linesBCount = 1

\* the label of a percentage by the table of ranges
LabelOf(percentage) ==
  CHOOSE label \in {VeryHigh, High, Moderate, Low, VeryLow} :
    /\ label = VeryHigh <=> RGe(percentage, Int2Rat(90))
    /\ label = High <=> RGe(percentage, Int2Rat(70)) /\ RLt(percentage, Int2Rat(90))
    /\ label = Moderate <=> RGe(percentage, Int2Rat(40)) /\ RLt(percentage, Int2Rat(70))
    /\ label = Low <=> RGe(percentage, Int2Rat(20)) /\ RLt(percentage, Int2Rat(40))
    /\ label = VeryLow <=> RLt(percentage, Int2Rat(20))

\* the percentage of a result before it is rounded
Unrounded(r) ==
  IF r.linesACount = 0 \/ r.linesBCount = 0 THEN Zero
  ELSE SimilarityPercentage(r.similarMatches, r.linesACount, r.linesBCount)

\* C19: the interpretation label of every result is the label of the
\* percentage before rounding, of which the reported similarityPercentage is
\* the value rounded to 2 decimals; it is the label of the reported percentage
\* too unless rounding has lifted the reported percentage onto 20, 40, 70 or
\* 90, and then it is the label of the range below.
C19_LabelOfUnrounded ==
  (CallReturned("current") /\ results # Thrown) =>
    /\ results.similarityPercentage = RoundTo(Unrounded(results), 100)
    /\ results.interpretation = LabelOf(Unrounded(results))
    /\ results.interpretation # LabelOf(results.similarityPercentage) =>
         /\ results.similarityPercentage \in
              {Int2Rat(20), Int2Rat(40), Int2Rat(70), Int2Rat(90)}
         /\ RLt(Unrounded(results), results.similarityPercentage)

\* return a against return ab at threshold 0.7: one match of score 1669/2040,
\* a percentage of 89.995..., reported as 90 with the label of [70,90)
C19_Witness ==
  /\ CallReturned("current")
  /\ BothExist
  /\ files[FileA] = <<"r", "e", "t", "u", "r", "n", " ", "a">>
  /\ files[FileB] = <<"r", "e", "t", "u", "r", "n", " ", "a", "b">>
  /\ call.threshold = Rat(7, 10)
  /\ results.similarMatches[1].score = Rat(1669, 2040)
  /\ RLt(Unrounded(results), Int2Rat(90))
  /\ results.similarityPercentage = Int2Rat(90)
  /\ results.interpretation = High

\* C19 as the specification words it: the interpretation label of every
\* result is the label of the similarityPercentage reported in that result.
C19_LabelOfReported ==
  (CallReturned("current") /\ results # Thrown) =>
    results.interpretation = LabelOf(results.similarityPercentage)

\* ------------------------------------------------------------------------
\* Properties of the functions on single lines and on one text
\* ------------------------------------------------------------------------
\* calculateLineSimilarity has returned
Scored == CallReturned("score")

\* the two lines reached the weighted combination
Combined(lineA, lineB) ==
  /\ Trim(lineA) # << >> /\ Trim(lineB) # << >>
  /\ normalizeLine(lineA) # normalizeLine(lineB)
  /\ Len(normalizeLine(lineA)) > 2 /\ Len(normalizeLine(lineB)) > 2
  /\ tokenizeLine(lineA) # << >> /\ tokenizeLine(lineB) # << >>

\* C11: for every pair of lines calculateLineSimilarity returns a value
\* between 0 and 1 inclusive, in both arms of the adaptive weighting.
C11_ScoreRange ==
  Scored => /\ RLe(Zero, results.similarity)
            /\ RLe(results.similarity, One)

\* the arm for a string similarity above 0.7: ab=1 against ab=2 is scored
\* strictly between 0 and 1
C11_Witness ==
  /\ Scored
  /\ Combined(call.inputA, call.inputB)
  /\ call.inputA = <<"a", "b", "=", "1">>
  /\ call.inputB = <<"a", "b", "=", "2">>
  /\ RGt(Components(call.inputA, call.inputB).stringSimilarity, Rat(7, 10))
  /\ RLt(Zero, results.similarity)
  /\ RLt(results.similarity, One)

\* ------------------------------------------------------------------------
\* Properties of a sequence of calls on one analyzer
\* ------------------------------------------------------------------------
\* two kept calls were made on the same file contents at the same threshold
SameInputs(c, d) ==
  /\ DOMAIN c.files = DOMAIN d.files
  /\ \A path \in DOMAIN c.files : c.files[path] = d.files[path]
  /\ c.threshold = d.threshold

Preprocessed == CallReturned("preprocess") /\ FileA \in DOMAIN files

\* the positions of the lines of a text that a rule retains
RetainedPositions(lines, Rule(_)) == {k \in 1..Len(lines) : Rule(lines[k])}

\* the normalized form is one of the import keywords and nothing else
BareImport(normalized) == normalized \in ImportWords

\* the rule with the length test "longer than 3 characters"
RetainedOver3(line) ==
  LET normalized == normalizeLine(line)
  IN /\ normalized # << >>
     /\ Len(normalized) > 3
     /\ Trim(normalized) \notin trivialPatterns
     /\ ~BareImport(normalized)

\* the rule with the length test "longer than 2 characters"
RetainedOver2(line) ==
  LET normalized == normalizeLine(line)
  IN /\ normalized # << >>
     /\ Len(normalized) > 2
     /\ Trim(normalized) \notin trivialPatterns
     /\ ~BareImport(normalized)

\* the stored lines are the lines of the text that the rule retains
StoresExactly(stored, lines, Rule(_)) ==
  /\ Len(stored) = Cardinality(RetainedPositions(lines, Rule))
  /\ \A k \in RetainedPositions(lines, Rule) :
       \E m \in 1..Len(stored) : stored[m] = TrimEnd(lines[k])
  /\ \A m \in 1..Len(stored) :
       \E k \in RetainedPositions(lines, Rule) : stored[m] = TrimEnd(lines[k])

\* C17: the preprocessor retains a line if and only if its normalized form is
\* longer than 3 characters, is not a member of the trivial-token set and is
\* not a bare import keyword.
C17_RetainedOver3 ==
  Preprocessed =>
    StoresExactly(results.lines, SplitLines(files[FileA]), RetainedOver3)

\* a text of a line of 4 characters, a line of 3 characters and a bare import:
\* the first line alone is retained
C17_Witness ==
  /\ Preprocessed
  /\ files[FileA] = JoinLines(<< <<"a", "b", "=", "1">>, <<"x", "=", "1">>,
                                 <<"i", "m", "p", "o", "r", "t", " ">> >>)
  /\ results.lines = << <<"a", "b", "=", "1">> >>

\* C17 as the specification words it: the preprocessor retains a line if and
\* only if its normalized form is non-empty, longer than 2 characters, not a
\* member of the trivial-token set and not a bare import keyword.
C17_RetainedOver2 ==
  Preprocessed =>
    StoresExactly(results.lines, SplitLines(files[FileA]), RetainedOver2)

\* the position among the retained lines of the retained line k
Rank(retained, k) == Cardinality({h \in retained : h <= k})

\* C18: the meaningful-line list is an order-preserving subsequence of the
\* lines of the text: the m-th stored line is the m-th retained line of the
\* text with its trailing white space removed and nothing else changed, so
\* no line is duplicated, dropped from the retained ones or moved.
C18_OrderedSubsequence ==
  Preprocessed =>
    LET lines == SplitLines(files[FileA])
        retained == RetainedPositions(lines, IsMeaningful)
    IN /\ Len(results.lines) = Cardinality(retained)
       /\ \A k \in retained :
            results.lines[Rank(retained, k)] = TrimEnd(lines[k])

\* a line with trailing white space, a comment line and a line with leading
\* white space, upper case and a comment: the first is stored without its
\* trailing white space, the third as it is, in this order
C18_Witness ==
  /\ Preprocessed
  /\ files[FileA] = JoinLines(<< <<"a", "b", "=", "1", " ", " ">>,
                                 <<"/", "/", "y", "z">>,
                                 <<" ", "A", "B", "=", "1", " ", "/", "/", "x">> >>)
  /\ results.lines = << <<"a", "b", "=", "1">>,
                        <<" ", "A", "B", "=", "1", " ", "/", "/", "x">> >>

\* ------------------------------------------------------------------------
\* Properties of the statistics
\* ------------------------------------------------------------------------
\* the sum of the scores of the first n matches
RECURSIVE SumOfScores(_, _)
SumOfScores(matches, n) ==
  IF n = 0 THEN Zero ELSE RAdd(SumOfScores(matches, n - 1), matches[n].score)

\* the percentage of the three-way rule for n matches of total score sum
\* between line lists of lenA and lenB lines
PercentageByRule(n, sum, lenA, lenB) ==
  LET coverageA == RMul(Rat(n, lenA), Int2Rat(100))
      coverageB == RMul(Rat(n, lenB), Int2Rat(100))
      avgQuality == RDiv(sum, Int2Rat(n))
      avgCoverage == RDiv(RAdd(coverageA, coverageB), Int2Rat(2))
  IN IF /\ RGt(RMin(coverageA, coverageB), Int2Rat(75))
        /\ RGt(avgQuality, Rat(7, 10))
        /\ RLt(Rat(Abs(lenA - lenB), Max2(lenA, lenB)), Rat(1, 4))
       THEN RMin(Int2Rat(100),
                 RMul(RMul(RMax(coverageA, coverageB), avgQuality), Rat(11, 10)))
     ELSE IF RGt(avgQuality, Rat(3, 5))
       THEN RMul(RMul(avgCoverage, avgQuality), Rat(21, 20))
     ELSE RMul(avgCoverage, avgQuality)

\* the statistics of a call with at least one match have been computed
Aggregated == CallReturned("statistics") /\ Len(call.matches) >= 1

Analysed == CallReturned("current") /\ results # Thrown

\* C21: when both line lists are non-empty and no pair reaches the threshold
\* the result has similarityPercentage 0, averageSimilarityScore 0,
\* similarLinesCount 0, an empty histogram, the lowest interpretation and no
\* error; the error is set exactly when a side has no meaningful line.
C21_NoMatchResult ==
  Analysed =>
    /\ (/\ results.linesACount > 0
         /\ results.linesBCount > 0
         /\ results.similarMatches = << >>) =>
           /\ results.similarityPercentage = Zero
           /\ results.averageSimilarityScore = Zero
           /\ results.similarLinesCount = 0
           /\ DOMAIN results.similarityDistribution = {}
           /\ results.interpretation = VeryLow
           /\ results.error = Undefined
    /\ (results.error # Undefined) <=>
          (results.linesACount = 0 \/ results.linesBCount = 0)
    /\ results.error \in {Undefined, ErrorText}
    /\ BothExist =>
         /\ results.linesACount = Len(LinesOf(files[FileA]))
         /\ results.linesBCount = Len(LinesOf(files[FileB]))

\* two files with meaningful lines of which no pair reaches the threshold
C21_Witness ==
  /\ Analysed
  /\ BothExist
  /\ LinesOf(files[FileA]) # << >>
  /\ LinesOf(files[FileB]) # << >>
  /\ \A i \in 1..Len(LinesOf(files[FileA])), j \in 1..Len(LinesOf(files[FileB])) :
       RLt(LineSimilarity[LinesOf(files[FileA])[i]][LinesOf(files[FileB])[j]],
           call.threshold)
  /\ results.similarMatches = << >>
  /\ results.error = Undefined

\* a file without a meaningful line against one with meaningful lines
C21_WitnessError ==
  /\ Analysed
  /\ BothExist
  /\ LinesOf(files[FileA]) = << >>
  /\ LinesOf(files[FileB]) # << >>
  /\ results.error = ErrorText

\* the sum of the counts of the buckets in ranges
RECURSIVE SumOfCounts(_, _)
SumOfCounts(distribution, ranges) ==
  IF ranges = {} THEN 0
  ELSE LET r == CHOOSE x \in ranges : TRUE
       IN distribution[r] + SumOfCounts(distribution, ranges \ {r})

\* the multiple of 10 that is the lower bound of the bucket of a score: the
\* lo with lo percent <= score < lo + 10 percent
LowerBound(score) ==
  CHOOSE lo \in {10 * d : d \in 0..10} :
    RLe(Rat(lo, 100), score) /\ RLt(score, Rat(lo + 10, 100))

\* C22: every committed match is counted in exactly one bucket of
\* similarityDistribution, the one from floor(score * 10) * 10 percent to that
\* plus 9, and the counts of the buckets sum to similarLinesCount.
C22_Histogram ==
  Returned =>
    LET distribution == results.similarityDistribution
        matches == results.similarMatches
    IN /\ \A r \in DOMAIN distribution :
            /\ r[2] = r[1] + 9
            /\ distribution[r] =
                 Cardinality({k \in 1..Len(matches) :
                                LowerBound(matches[k].score) = r[1]})
            /\ distribution[r] >= 1
       /\ \A k \in 1..Len(matches) :
            Cardinality({r \in DOMAIN distribution :
                           r[1] = LowerBound(matches[k].score)}) = 1
       /\ SumOfCounts(distribution, DOMAIN distribution) = results.similarLinesCount
       /\ results.similarLinesCount = Len(matches)

\* two matches of score 0.65 are both counted in the bucket 60%-69%
C22_Witness ==
  /\ Returned
  /\ results.similarLinesCount = 2
  /\ \A k \in 1..2 : results.similarMatches[k].score = Rat(13, 20)
  /\ DOMAIN results.similarityDistribution = {<<60, 69>>}
  /\ results.similarityDistribution[<<60, 69>>] = 2

\* matches of score 1 and 0.5 are counted in the buckets 100%-109% and 50%-59%
C22_WitnessTwoBuckets ==
  /\ Returned
  /\ results.similarLinesCount = 2
  /\ DOMAIN results.similarityDistribution = {<<100, 109>>, <<50, 59>>}

\* ------------------------------------------------------------------------
\* Properties of calculateLineSimilarity
\* ------------------------------------------------------------------------
\* every character of the raw line is white space
Blank(line) == \A k \in 1..Len(line) : IsSpace(line[k])

\* the normalized form has at most 2 characters or is one character of
\* generic syntax
ShortOrGeneric(line) ==
  \/ Len(normalizeLine(line)) <= 2
  \/ normalizeLine(line) \in genericPatterns

\* the rule of calculateLineSimilarity that decides a pair of lines
RuleOf(lineA, lineB) ==
  IF Blank(lineA) \/ Blank(lineB) THEN "blank"
  ELSE IF normalizeLine(lineA) = normalizeLine(lineB) THEN "identical"
  ELSE IF ShortOrGeneric(lineA) \/ ShortOrGeneric(lineB) THEN "short"
  ELSE IF tokenizeLine(lineA) = << >> \/ tokenizeLine(lineB) = << >> THEN "no tokens"
  ELSE "combined"

\* C23: calculateLineSimilarity applies its rules in this order: a blank raw
\* line on either side gives 0, even if both are blank; otherwise identical
\* normalized forms give 1; otherwise a normalized form of at most 2
\* characters or a single character of generic syntax on either side gives 0;
\* otherwise an empty token list on either side gives 0; only then are the
\* component scores combined.
C23_ShortCircuitOrder ==
  Scored =>
    LET rule == RuleOf(call.inputA, call.inputB)
    IN /\ rule = "blank" => results.similarity = Zero
       /\ rule = "identical" => results.similarity = One
       /\ rule = "short" => results.similarity = Zero
       /\ rule = "no tokens" => results.similarity = Zero
       /\ rule = "combined" =>
            results.similarity =
              CombineComponents(Components(call.inputA, call.inputB))

\* two blank lines with the same normalized form score 0
C23_Witness ==
  /\ Scored
  /\ call.inputA = << >>
  /\ call.inputB = <<" ">>
  /\ normalizeLine(call.inputA) = normalizeLine(call.inputB)
  /\ results.similarity = Zero

\* two comment lines are not blank and have the same empty normalized form
C23_WitnessIdentical ==
  /\ Scored
  /\ RuleOf(call.inputA, call.inputB) = "identical"
  /\ call.inputA = call.inputB
  /\ normalizeLine(call.inputA) = << >>
  /\ results.similarity = One

\* a brace against a line of 4 characters
C23_WitnessShort ==
  /\ Scored
  /\ RuleOf(call.inputA, call.inputB) = "short"
  /\ call.inputA = <<"{">>
  /\ Len(normalizeLine(call.inputB)) > 2
  /\ results.similarity = Zero

\* f(a) has 4 characters and no token
C23_WitnessNoTokens ==
  /\ Scored
  /\ RuleOf(call.inputA, call.inputB) = "no tokens"
  /\ tokenizeLine(call.inputA) = << >>
  /\ tokenizeLine(call.inputB) # << >>
  /\ results.similarity = Zero

\* a pair that passes every rule and has a score above 0
C23_WitnessCombined ==
  /\ Scored
  /\ RuleOf(call.inputA, call.inputB) = "combined"
  /\ RGt(results.similarity, Zero)

\* the three components are all below their bounds
BelowMinimumOverlap(c) ==
  /\ RLt(c.jaccard, Rat(1, 10))
  /\ RLt(c.sequenceSimilarity, Rat(1, 5))
  /\ RLt(c.stringSimilarity, Rat(3, 10))

\* C24: when Jaccard < 0.1, sequence similarity < 0.2 and string similarity
\* < 0.3 calculateLineSimilarity returns exactly 0 whatever the overlap of the
\* structural features is; when one of the three is at or above its bound the
\* pair is not rejected and gets the positive weighted score.
C24_MinimumOverlap ==
  (Scored /\ RuleOf(call.inputA, call.inputB) = "combined") =>
    LET c == Components(call.inputA, call.inputB)
    IN /\ BelowMinimumOverlap(c) => results.similarity = Zero
       /\ ~BelowMinimumOverlap(c) => RGt(results.similarity, Zero)

\* return 7 and ab=1 share the numeric literal among their structural
\* features and nothing else: the score is 0
C24_Witness ==
  /\ Scored
  /\ RuleOf(call.inputA, call.inputB) = "combined"
  /\ BelowMinimumOverlap(Components(call.inputA, call.inputB))
  /\ RGt(Components(call.inputA, call.inputB).structuralSimilarity, Zero)
  /\ results.similarity = Zero

\* a string similarity of exactly 0.3 with no common token is not rejected
C24_WitnessAtBound ==
  /\ Scored
  /\ RuleOf(call.inputA, call.inputB) = "combined"
  /\ Components(call.inputA, call.inputB).jaccard = Zero
  /\ Components(call.inputA, call.inputB).sequenceSimilarity = Zero
  /\ Components(call.inputA, call.inputB).stringSimilarity = Rat(3, 10)
  /\ results.similarity = Rat(9, 100)

\* ------------------------------------------------------------------------
\* Properties of calculateSequenceSimilarity and calculateStringSimilarity
\* ------------------------------------------------------------------------
\* the elements of s at the positions in keep, in their order
RECURSIVE Pick(_, _, _)
Pick(s, keep, k) ==
  IF k > Len(s) THEN << >>
  ELSE (IF k \in keep THEN << s[k] >> ELSE << >>) \o Pick(s, keep, k + 1)

\* s can be had from t by deleting elements
RECURSIVE IsSubsequence(_, _)
IsSubsequence(s, t) ==
  IF s = << >> THEN TRUE
  ELSE IF t = << >> THEN FALSE
  ELSE IF Head(s) = Head(t) THEN IsSubsequence(Tail(s), Tail(t))
  ELSE IsSubsequence(s, Tail(t))

\* the length of a longest common subsequence, by its definition
LongestCommon(a, b) ==
  LET common == {keep \in SUBSET (1..Len(a)) : IsSubsequence(Pick(a, keep, 1), b)}
  IN CHOOSE n \in 0..Len(a) :
       /\ \E keep \in common : Cardinality(keep) = n
       /\ \A keep \in common : Cardinality(keep) <= n

\* 2 * L / (|a| + |b|), 1 for two empty sequences, 0 when one is empty
RatioOfLongestCommon(a, b) ==
  IF a = << >> /\ b = << >> THEN One
  ELSE IF a = << >> \/ b = << >> THEN Zero
  ELSE Rat(2 * LongestCommon(a, b), Len(a) + Len(b))

\* one of the two functions has returned
Compared == CallReturned("sequence") \/ CallReturned("string")

\* C25: calculateSequenceSimilarity and calculateStringSimilarity return
\* 2 * L / (|a| + |b|) where L is the length of a longest common subsequence,
\* which the last cell of the dp table equals; they return 1 for two empty
\* sequences and 0 when exactly one is empty.
C25_LongestCommonSubsequence ==
  Compared =>
    /\ results.similarity = RatioOfLongestCommon(call.inputA, call.inputB)
    /\ LcsLength(call.inputA, call.inputB) =
         LongestCommon(call.inputA, call.inputB)

\* a longest common subsequence that is not contiguous and needs the cell to
\* the left: a b = a against b a = a has "b=a" in common, 3 of 4 and 4
C25_Witness ==
  /\ CallReturned("string")
  /\ call.inputA = <<"a", "b", "=", "a">>
  /\ call.inputB = <<"b", "a", "=", "a">>
  /\ results.similarity = Rat(3, 4)

\* token lists of different lengths
C25_WitnessSequence ==
  /\ CallReturned("sequence")
  /\ Len(call.inputA) = 2
  /\ Len(call.inputB) = 4
  /\ results.similarity = Rat(2, 3)

\* two empty sequences
C25_WitnessBothEmpty ==
  /\ Compared
  /\ call.inputA = << >>
  /\ call.inputB = << >>
  /\ results.similarity = One

\* one empty sequence
C25_WitnessOneEmpty ==
  /\ Compared
  /\ call.inputA = << >>
  /\ call.inputB # << >>
  /\ results.similarity = Zero

\* ------------------------------------------------------------------------
\* Properties of calculateLineSimilarity on the lines preprocessFile stores
\* ------------------------------------------------------------------------
\* preprocessFile stores the line as it is
Retained(line) == IsMeaningful(line) /\ TrimEnd(line) = line

\* calculateLineSimilarity has returned for two lines preprocessFile stores
ScoredRetained ==
  Scored /\ Retained(call.inputA) /\ Retained(call.inputB)

\* C26: for two lines retained by preprocessFile calculateLineSimilarity
\* returns 1 if and only if their normalized forms are identical; a pair with
\* different normalized forms stays below 1 in the weighted combination.
C26_OneIffIdentical ==
  ScoredRetained =>
    /\ (results.similarity = One) <=>
         (normalizeLine(call.inputA) = normalizeLine(call.inputB))
    /\ normalizeLine(call.inputA) # normalizeLine(call.inputB) =>
         RLt(results.similarity, One)

\* two retained lines that differ as written and have one normalized form
C26_Witness ==
  /\ ScoredRetained
  /\ call.inputA # call.inputB
  /\ normalizeLine(call.inputA) = normalizeLine(call.inputB)
  /\ results.similarity = One

\* a retained line without a structural feature against itself
C26_WitnessNoFeatures ==
  /\ ScoredRetained
  /\ call.inputA = call.inputB
  /\ extractStructuralFeatures(call.inputA) = {}
  /\ results.similarity = One

\* two retained lines with different normalized forms and a string similarity
\* above 0.7
C26_WitnessDifferent ==
  /\ ScoredRetained
  /\ normalizeLine(call.inputA) # normalizeLine(call.inputB)
  /\ RGt(Components(call.inputA, call.inputB).stringSimilarity, Rat(7, 10))
  /\ RLt(results.similarity, One)
  /\ RGt(results.similarity, Rat(7, 10))

\* C27: calculateLineSimilarity is symmetric: the score of (a, b) equals the
\* score of (b, a) for all lines a and b.
C27_Symmetric ==
  Scored =>
    results.similarity = calculateLineSimilarity(call.inputB, call.inputA)

\* two lines with token lists and feature sets of different sizes and a score
\* strictly between 0 and 1
C27_Witness ==
  /\ Scored
  /\ RuleOf(call.inputA, call.inputB) = "combined"
  /\ Len(tokenizeLine(call.inputA)) < Len(tokenizeLine(call.inputB))
  /\ Cardinality(extractStructuralFeatures(call.inputA))
       < Cardinality(extractStructuralFeatures(call.inputB))
  /\ RGt(results.similarity, Zero)
  /\ RLt(results.similarity, One)
  /\ results.similarity = calculateLineSimilarity(call.inputB, call.inputA)

\* ------------------------------------------------------------------------
\* Properties of the matches of a call on two files
\* ------------------------------------------------------------------------
\* C28: every match of a result refers to existing meaningful lines:
\* 0 <= lineAIndex < linesACount and 0 <= lineBIndex < linesBCount, the
\* indices counting the filtered lines and not the lines of the file, and
\* similarLinesCount is the length of similarMatches.
C28_MatchIndices ==
  Analysed =>
    /\ results.similarLinesCount = Len(results.similarMatches)
    /\ \A k \in 1..Len(results.similarMatches) :
         LET match == results.similarMatches[k]
         IN /\ 0 <= match.lineAIndex /\ match.lineAIndex < results.linesACount
            /\ 0 <= match.lineBIndex /\ match.lineBIndex < results.linesBCount
            /\ BothExist
            /\ match.score =
                 calculateLineSimilarity(
                   LinesOf(files[FileA])[match.lineAIndex + 1],
                   LinesOf(files[FileB])[match.lineBIndex + 1])

\* the second line of a file whose first line is a comment is matched as
\* line 0 of the one meaningful line
C28_Witness ==
  /\ Analysed
  /\ BothExist
  /\ Len(SplitLines(files[FileA])) = 2
  /\ ~IsMeaningful(SplitLines(files[FileA])[1])
  /\ IsMeaningful(SplitLines(files[FileA])[2])
  /\ results.linesACount = 1
  /\ results.similarLinesCount = 1
  /\ results.similarMatches[1].lineAIndex = 0

\* the last line of each list is matched
C28_WitnessLast ==
  /\ Analysed
  /\ results.linesACount = 2
  /\ results.linesBCount = 2
  /\ \E k \in 1..Len(results.similarMatches) :
       /\ results.similarMatches[k].lineAIndex = 1
       /\ results.similarMatches[k].lineBIndex = 1

\* ------------------------------------------------------------------------
\* Properties of the divisions
\* ------------------------------------------------------------------------
\* the denominators of the divisions the returned call has executed
DivisorsOfCall ==
  IF CallReturned("current")
    THEN analyzeCodeSimilarityDivisors(files, call.inputA, call.inputB,
                                       call.threshold)
  ELSE IF Scored THEN LineSimilarityDivisors(call.inputA, call.inputB)
  ELSE IF Compared THEN SequenceDivisors(call.inputA, call.inputB)
  ELSE {}

\* C29: no division by zero is reachable in analyzeCodeSimilarity or in the
\* line scorer: the coverage, average-quality and size-ratio divisions are
\* executed only when both line counts and the match count are positive, and
\* the Jaccard, structural and longest-common-subsequence ratios only with a
\* positive denominator.
C29_NoDivisionByZero ==
  /\ \A d \in DivisorsOfCall : d > 0
  /\ (/\ Analysed
      /\ \/ results.linesACount = 0
         \/ results.linesBCount = 0
         \/ results.similarLinesCount = 0) =>
          DivisorsOfCall \subseteq
            {100, 1000} \cup
            findSimilarLinesDivisors(preprocessFile(files, call.inputA).lines,
                                     preprocessFile(files, call.inputB).lines)

\* a call on two files with meaningful lines and no match: the lines are
\* scored, the coverage and quality divisions are not executed
C29_Witness ==
  /\ Analysed
  /\ results.linesACount > 0
  /\ results.linesBCount > 0
  /\ results.similarLinesCount = 0
  /\ DivisorsOfCall # {100, 1000}
  /\ 2 \notin DivisorsOfCall
  /\ \A d \in DivisorsOfCall : d > 0

\* a call with a match between lists of different lengths divides by both
\* line counts and by the match count
C29_WitnessMatched ==
  /\ Analysed
  /\ results.linesACount = 2
  /\ results.linesBCount = 1
  /\ results.similarLinesCount = 1
  /\ {1, 2} \subseteq DivisorsOfCall

\* two lines without a structural feature: the structural ratio is replaced
\* by 0 and no division by the empty union is executed
C29_WitnessNoFeatures ==
  /\ Scored
  /\ RuleOf(call.inputA, call.inputB) = "combined"
  /\ extractStructuralFeatures(call.inputA) = {}
  /\ extractStructuralFeatures(call.inputB) = {}
  /\ Components(call.inputA, call.inputB).structuralSimilarity = Zero
  /\ DivisorsOfCall # {}
  /\ \A d \in DivisorsOfCall : d > 0

====
